---------------------------- MODULE Spec2Model ----------------------------
(***************************************************************************)
(* Post-processing and label resolution of the object-counting pipeline:   *)
(* src/src/pipeline/postprocess.py and src/src/pipeline/mapping.py.        *)
(*                                                                         *)
(* Representation.  A Python str is a TLA+ string, read as the sequence of *)
(* its characters with Len, SubSeq and \o, so that lower(), strip(), the   *)
(* regular-expression clean-up and the `in` substring test are computed    *)
(* character by character.  A confidence or a                              *)
(* score is a fixed-point integer in units of 1/10000 (One = 1.0); an IoU  *)
(* is the exact fraction <<intersection, union>>.  A Python dict whose     *)
(* iteration order matters is a sequence of <<key, value>> pairs in        *)
(* insertion order.                                                        *)
(***************************************************************************)
EXTENDS Integers, Sequences, FiniteSets, TLC

VARIABLES
    synLabel,       \* map_synonym: the raw_label argument
    synOut,         \* map_synonym: the returned label, NotYet before the call
    nmsIn,          \* apply_nms: the detections argument
    nmsThr,         \* apply_nms: the threshold argument
    nmsOut,         \* apply_nms: the returned list, NotYet before the call
    use_zero_shot,  \* LabelMapper.use_zero_shot (the classifier is loaded iff TRUE)
    cache,          \* LabelMapper._cache: cache key -> zero-shot result
    zsModel,        \* the external classifier: how it ranks and scores
    zsFailing,      \* the external classifier raises on its next calls
    mapThreshold,   \* the mapping_threshold the caller passes
    zsAsked,        \* history: <<raw label, candidate set>> -> classifier calls made
    zsAnswered,     \* history: cache key -> classifier calls that returned
    last,           \* the last mapper operation: arguments and outcome
    filClassifications, \* filter_segments: the classifications argument
    filBboxes,      \* filter_segments: the bboxes argument
    filConfig,      \* confidence_threshold, min_area, max_area
    filStage,       \* "raw", then "calibrated", then "filtered"
    filOut,         \* filter_segments: the returned list
    iouBox1,        \* calculate_iou: the box1 argument
    iouBox2,        \* calculate_iou: the box2 argument
    iouOut,         \* calculate_iou: the returned value, <<>> before the call
    aggIn,          \* the detections handed to the aggregation functions
    aggOut,         \* the last aggregation call and what it returned
    qualIn,         \* generate_quality_flags: the detections argument
    qualOut,        \* generate_quality_flags: the returned dict
    runIn,          \* one image: its segments and the parameters of the run
    runReports,     \* the reports of the runs made on it so far
    synonymMappings, \* mapping.py: the module global SYNONYM_MAPPINGS
    reverseMapping, \* mapping.py: the module global REVERSE_MAPPING
    customCalls,    \* history: the add_custom_synonyms calls made so far
    globalMapper,   \* mapping.py: _global_mapper, <<>> for None, else <<instance>>
    mappers,        \* the LabelMapper instances constructed so far
    getThreads,     \* per thread: its position in get_mapper and what it returned
    monitoring,     \* monitoring.py: the PerformanceMonitoring instance's fields
    monLast,        \* the last PerformanceMonitoring method called
    storage,        \* the database rows and the media directory
    pipelineCalls,  \* history: the images handed to the AI pipeline, in order
    apiLast,        \* the last API request, the state it found and its response
    apiCount        \* the number of API requests served

synVars == <<synLabel, synOut>>
nmsVars == <<nmsIn, nmsThr, nmsOut>>
mapVars == <<use_zero_shot, cache, zsModel, zsFailing, mapThreshold,
            zsAsked, zsAnswered, last>>
filVars == <<filClassifications, filBboxes, filConfig, filStage, filOut>>
iouVars == <<iouBox1, iouBox2, iouOut>>
aggVars == <<aggIn, aggOut>>
qualVars == <<qualIn, qualOut>>
runVars == <<runIn, runReports>>
tableVars == <<synonymMappings, reverseMapping, customCalls>>
singletonVars == <<globalMapper, mappers, getThreads>>
monVars == <<monitoring, monLast>>
apiVars == <<storage, pipelineCalls, apiLast, apiCount>>
moreVars == <<tableVars, singletonVars, monVars, apiVars>>
postVars == <<iouVars, aggVars, qualVars, runVars, moreVars>>
vars == <<synLabel, synOut, nmsIn, nmsThr, nmsOut,
          use_zero_shot, cache, zsModel, zsFailing, mapThreshold,
          zsAsked, zsAnswered, last,
          filClassifications, filBboxes, filConfig, filStage, filOut,
          iouBox1, iouBox2, iouOut, aggIn, aggOut, qualIn, qualOut,
          runIn, runReports,
          synonymMappings, reverseMapping, customCalls,
          globalMapper, mappers, getThreads, monitoring, monLast,
          storage, pipelineCalls, apiLast, apiCount>>

\* A result slot that no call has filled yet.
NotYet == "not-yet"
NoCallYet == [op |-> "none"]

\* 1.0 in fixed point
One == 10000

\* The variables of a component that a specification does not exercise.
SynIdle == synLabel = "" /\ synOut = NotYet
NmsIdle == nmsIn = <<>> /\ nmsThr = 0 /\ nmsOut = NotYet
MapIdle ==
    /\ use_zero_shot = FALSE
    /\ cache = <<>>
    /\ zsModel = NotYet
    /\ zsFailing = FALSE
    /\ mapThreshold = 0
    /\ zsAsked = <<>>
    /\ zsAnswered = <<>>
    /\ last = NoCallYet
FilIdle ==
    /\ filClassifications = <<>>
    /\ filBboxes = <<>>
    /\ filConfig = <<>>
    /\ filStage = "raw"
    /\ filOut = <<>>
IouIdle == iouBox1 = <<>> /\ iouBox2 = <<>> /\ iouOut = <<>>
AggIdle == aggIn = <<>> /\ aggOut = NoCallYet
QualIdle == qualIn = <<>> /\ qualOut = NoCallYet
RunIdle == runIn = NoCallYet /\ runReports = <<>>

(***************************************************************************)
(* Python str operations used by mapping.py                                *)
(***************************************************************************)
UpperLetters == <<"A","B","C","D","E","F","G","H","I","J","K","L","M",
                  "N","O","P","Q","R","S","T","U","V","W","X","Y","Z">>
LowerLetters == <<"a","b","c","d","e","f","g","h","i","j","k","l","m",
                  "n","o","p","q","r","s","t","u","v","w","x","y","z">>

Range(f) == {f[i] : i \in DOMAIN f}

IsUpper(c) == c \in Range(UpperLetters)
IsLetter(c) == c \in Range(UpperLetters) \cup Range(LowerLetters)
IsSpace(c) == c \in {" ", "\t", "\n"}

\* the i-th character of s, as a one-character string
CharAt(s, i) == SubSeq(s, i, i)

\* str.lower() on one character
LowerChar(c) ==
    IF IsUpper(c)
    THEN LowerLetters[CHOOSE i \in DOMAIN UpperLetters : UpperLetters[i] = c]
    ELSE c

\* str.lower()
RECURSIVE Lower(_)
Lower(s) ==
    IF Len(s) = 0 THEN ""
    ELSE LowerChar(CharAt(s, 1)) \o Lower(SubSeq(s, 2, Len(s)))

\* str.strip(): leading and trailing whitespace removed
Strip(s) ==
    LET nonSpace == {i \in 1..Len(s) : ~IsSpace(CharAt(s, i))}
    IN  IF nonSpace = {} THEN ""
        ELSE LET lo == CHOOSE i \in nonSpace : \A j \in nonSpace : i <= j
                 hi == CHOOSE i \in nonSpace : \A j \in nonSpace : j <= i
             IN  SubSeq(s, lo, hi)

\* re.sub(r'[^a-zA-Z\s]', '', s): every character that is neither a letter
\* nor whitespace is deleted
KeepLettersAndSpace(c) == IsLetter(c) \/ IsSpace(c)

RECURSIVE StripNonLetters(_)
StripNonLetters(s) ==
    IF Len(s) = 0 THEN ""
    ELSE (IF KeepLettersAndSpace(CharAt(s, 1)) THEN CharAt(s, 1) ELSE "")
            \o StripNonLetters(SubSeq(s, 2, Len(s)))

\* a in b  (Python substring test; the empty string is in every string)
IsSubstr(a, b) ==
    \E i \in 0..(Len(b) - Len(a)) : SubSeq(b, i + 1, i + Len(a)) = a

(***************************************************************************)
(* Ordered dict: a sequence of <<key, value>> pairs in insertion order.    *)
(***************************************************************************)
DictHas(d, k) == \E i \in DOMAIN d : d[i][1] = k
DictGet(d, k) == d[CHOOSE i \in DOMAIN d : d[i][1] = k][2]
(***************************************************************************)
(* mapping.py: the synonym table and its reverse mapping                   *)
(***************************************************************************)
SYNONYM_MAPPINGS ==
  <<
    <<"person", <<"human", "people", "man", "woman", "child", "boy", "girl", "adult">>>>,
    <<"dog", <<"puppy", "canine", "hound", "mutt">>>>,
    <<"cat", <<"kitten", "feline", "kitty">>>>,
    <<"bird", <<"eagle", "pigeon", "sparrow", "crow", "seagull", "hawk">>>>,
    <<"car", <<"automobile", "sedan", "hatchback", "coupe", "vehicle">>>>,
    <<"truck", <<"lorry", "pickup", "semi", "trailer">>>>,
    <<"bus", <<"coach", "transit">>>>,
    <<"motorcycle", <<"bike", "motorbike", "scooter">>>>,
    <<"bicycle", <<"bike", "cycle">>>>,
    <<"bottle", <<"container", "flask", "jar">>>>,
    <<"cup", <<"mug", "glass", "tumbler">>>>,
    <<"chair", <<"seat", "stool">>>>,
    <<"table", <<"desk", "surface">>>>,
    <<"tree", <<"oak", "pine", "maple", "palm", "bush", "shrub">>>>,
    <<"flower", <<"rose", "tulip", "daisy", "bloom">>>>,
    <<"building", <<"house", "structure", "edifice", "construction">>>>,
    <<"road", <<"street", "path", "highway", "avenue">>>>,
    <<"bridge", <<"overpass", "crossing">>>>,
    <<"computer", <<"laptop", "pc", "desktop">>>>,
    <<"phone", <<"smartphone", "mobile", "cellphone", "iphone">>>>,
    <<"tv", <<"television", "monitor", "screen", "display">>>>
  >>

(***************************************************************************)
(* build_reverse_mapping.  The two nested loops perform, in order, the     *)
(* assignments reverse[canonical.lower()] = canonical and, for each of its *)
(* synonyms, reverse[synonym.lower()] = canonical.  The resulting dict     *)
(* holds each key at the position of its first assignment with the value   *)
(* of its last assignment.                                                 *)
(***************************************************************************)
\* the assignments of one iteration of `for canonical, synonyms in ...`
EntryAssignments(entry) ==
    <<<<Lower(entry[1]), entry[1]>>>>
        \o [j \in 1..Len(entry[2]) |-> <<Lower(entry[2][j]), entry[1]>>]

\* the assignments of the whole loop, in execution order
RECURSIVE LoopAssignments(_)
LoopAssignments(entries) ==
    IF entries = <<>> THEN <<>>
    ELSE EntryAssignments(Head(entries)) \o LoopAssignments(Tail(entries))

\* the dict a sequence of assignments d[k] = v leaves behind
DictOfAssignments(a) ==
    LET firsts == {i \in DOMAIN a : \A j \in 1..(i - 1) : a[j][1] # a[i][1]}
        nth(n) == CHOOSE i \in firsts :
                      Cardinality({j \in firsts : j < i}) = n - 1
        lastOf(k) == CHOOSE i \in DOMAIN a :
                         /\ a[i][1] = k
                         /\ \A j \in DOMAIN a : a[j][1] = k => j <= i
    IN  [n \in 1..Cardinality(firsts) |->
            <<a[nth(n)][1], a[lastOf(a[nth(n)][1])][2]>>]

build_reverse_mapping(synonym_dict) ==
    DictOfAssignments(LoopAssignments(synonym_dict))

REVERSE_MAPPING == build_reverse_mapping(SYNONYM_MAPPINGS)

\* cleaned = re.sub(r'[^a-zA-Z\s]', '', raw_label.lower().strip())
CleanLabel(raw_label) == StripNonLetters(Strip(Lower(raw_label)))

\* map_synonym with the direct lookup only, the partial matching left out
lookup_synonym_exact(reverse, raw_label) ==
    LET cleaned == CleanLabel(raw_label)
    IN  IF DictHas(reverse, cleaned) THEN DictGet(reverse, cleaned) ELSE raw_label

\* LabelMapper.map_synonym against a given reverse mapping: exact entry
\* first, then the first entry (in insertion order) that contains the
\* cleaned label or is contained in it, else the raw label itself.
lookup_synonym(reverse, raw_label) ==
    LET cleaned == CleanLabel(raw_label)
        partial == {i \in DOMAIN reverse :
                        IsSubstr(reverse[i][1], cleaned)
                        \/ IsSubstr(cleaned, reverse[i][1])}
    IN  IF DictHas(reverse, cleaned) THEN DictGet(reverse, cleaned)
        ELSE IF partial # {}
             THEN reverse[CHOOSE i \in partial : \A j \in partial : i <= j][2]
             ELSE raw_label

map_synonym(raw_label) == lookup_synonym(REVERSE_MAPPING, raw_label)

\* the synonym table as the import of mapping.py leaves it
TableIdle ==
    /\ synonymMappings = SYNONYM_MAPPINGS
    /\ reverseMapping = REVERSE_MAPPING
    /\ customCalls = <<>>
\* no thread has called get_mapper
MaxThreads == 2
Threads == 1..MaxThreads
SingletonIdle ==
    /\ globalMapper = <<>>
    /\ mappers = <<>>
    /\ getThreads = [t \in Threads |->
                        [pc |-> "idle", use_zero_shot |-> TRUE, returned |-> <<>>]]
\* PerformanceMonitoring.__init__
FreshMonitoring ==
    [total_requests |-> 0, successful_requests |-> 0, failed_requests |-> 0,
     processing_times |-> <<>>, object_type_stats |-> <<>>]
MonIdle == monitoring = FreshMonitoring /\ monLast = "__init__"
\* an empty database and media directory, no request served; refused_types
\* are the object type names whose row the database refuses to commit
EmptyStorage ==
    [inputs |-> <<>>, object_types |-> <<>>, outputs |-> <<>>, media |-> <<>>,
     refused_types |-> {}]
ApiIdle ==
    /\ storage = EmptyStorage
    /\ pipelineCalls = <<>>
    /\ apiLast = NoCallYet
    /\ apiCount = 0
MoreIdle == TableIdle /\ SingletonIdle /\ MonIdle /\ ApiIdle
PostIdle == IouIdle /\ AggIdle /\ QualIdle /\ RunIdle /\ MoreIdle

(***************************************************************************)
(* Labels the checks feed to the mapper                                    *)
(***************************************************************************)
EmptyLabel == ""
L_van == "van"
L_puppy == "puppy"
L_Puppy_bang == " Puppy! "
L_red_sports_car == "red sports car"
L_golden_retriever == "golden retriever"
L_oak_tree == "oak tree"
L_dog_toy == "dog toy"
L_tree == "tree"
L_digits == "123"
L_unknown == "unknown"
L_Car == "Car"
L_car == "car"
L_caravan == "caravan"
L_bike == "bike"
L_dog == "dog"
L_motorcycle == "motorcycle"
L_bicycle == "bicycle"
L_person == "person"

\* every canonical term and every synonym of the table
TableWords ==
    UNION {{SYNONYM_MAPPINGS[i][1]} \cup Range(SYNONYM_MAPPINGS[i][2]) :
                i \in DOMAIN SYNONYM_MAPPINGS}

SynInputs ==
    TableWords \cup {EmptyLabel, L_van, L_Puppy_bang, L_red_sports_car,
                     L_golden_retriever, L_oak_tree, L_digits, L_unknown,
                     L_Car, L_caravan}

(***************************************************************************)
(* Specification SpecSynonym: one call of LabelMapper.map_synonym          *)
(***************************************************************************)
InitSyn ==
    /\ synLabel \in SynInputs
    /\ synOut = NotYet
    /\ NmsIdle
    /\ MapIdle
    /\ FilIdle
    /\ PostIdle

MapSynonymCall ==
    /\ synOut = NotYet
    /\ synOut' = map_synonym(synLabel)
    /\ UNCHANGED <<synLabel, nmsVars, mapVars, filVars, postVars>>

NextSyn == MapSynonymCall

SpecSynonym == InitSyn /\ [][NextSyn]_vars

\* C2: every canonical term C of SYNONYM_MAPPINGS resolves to C, and every
\* synonym listed under C resolves to C.
C2_TableEntriesResolve ==
    synOut # NotYet =>
        \A i \in DOMAIN SYNONYM_MAPPINGS :
            /\ (synLabel = SYNONYM_MAPPINGS[i][1] => synOut = SYNONYM_MAPPINGS[i][1])
            /\ (synLabel \in Range(SYNONYM_MAPPINGS[i][2])
                    => synOut = SYNONYM_MAPPINGS[i][1])


(***************************************************************************)
(* postprocess.py: calculate_iou and apply_nms                             *)
(***************************************************************************)
Max2(a, b) == IF a >= b THEN a ELSE b
Min2(a, b) == IF a <= b THEN a ELSE b

\* calculate_iou with the area of box2 taken from the width of box1, with
\* the no-overlap test on x only, and with the intersection not subtracted
\* from the union
calculate_iou_area_slip(box1, box2) ==
    LET x1_i == Max2(box1[1], box2[1])
        y1_i == Max2(box1[2], box2[2])
        x2_i == Min2(box1[1] + box1[3], box2[1] + box2[3])
        y2_i == Min2(box1[2] + box1[4], box2[2] + box2[4])
        intersection == (x2_i - x1_i) * (y2_i - y1_i)
        area1 == box1[3] * box1[4]
        area2 == box1[3] * box2[4]
        union == area1 + area2 - intersection
    IN  IF x2_i <= x1_i \/ y2_i <= y1_i THEN <<0, 1>>
        ELSE IF union > 0 THEN <<intersection, union>>
        ELSE <<0, 1>>

calculate_iou_x_only(box1, box2) ==
    LET x1_i == Max2(box1[1], box2[1])
        y1_i == Max2(box1[2], box2[2])
        x2_i == Min2(box1[1] + box1[3], box2[1] + box2[3])
        y2_i == Min2(box1[2] + box1[4], box2[2] + box2[4])
        intersection == (x2_i - x1_i) * (y2_i - y1_i)
        area1 == box1[3] * box1[4]
        area2 == box2[3] * box2[4]
        union == area1 + area2 - intersection
    IN  IF x2_i <= x1_i THEN <<0, 1>>
        ELSE IF union > 0 THEN <<intersection, union>>
        ELSE <<0, 1>>

calculate_iou_plain_sum(box1, box2) ==
    LET x1_i == Max2(box1[1], box2[1])
        y1_i == Max2(box1[2], box2[2])
        x2_i == Min2(box1[1] + box1[3], box2[1] + box2[3])
        y2_i == Min2(box1[2] + box1[4], box2[2] + box2[4])
        intersection == (x2_i - x1_i) * (y2_i - y1_i)
        area1 == box1[3] * box1[4]
        area2 == box2[3] * box2[4]
        union == area1 + area2
    IN  IF x2_i <= x1_i \/ y2_i <= y1_i THEN <<0, 1>>
        ELSE IF union > 0 THEN <<intersection, union>>
        ELSE <<0, 1>>

\* calculate_iou(box1, box2) for boxes [x, y, w, h]; the float it returns
\* is kept as the exact fraction <<numerator, denominator>>, 0.0 as <<0, 1>>.
calculate_iou(box1, box2) ==
    LET x1_1 == box1[1]
        y1_1 == box1[2]
        w1   == box1[3]
        h1   == box1[4]
        x2_1 == x1_1 + w1
        y2_1 == y1_1 + h1
        x1_2 == box2[1]
        y1_2 == box2[2]
        w2   == box2[3]
        h2   == box2[4]
        x2_2 == x1_2 + w2
        y2_2 == y1_2 + h2
        x1_i == Max2(x1_1, x1_2)
        y1_i == Max2(y1_1, y1_2)
        x2_i == Min2(x2_1, x2_2)
        y2_i == Min2(y2_1, y2_2)
        intersection == (x2_i - x1_i) * (y2_i - y1_i)
        area1 == w1 * h1
        area2 == w2 * h2
        union == area1 + area2 - intersection
    IN  IF x2_i <= x1_i \/ y2_i <= y1_i THEN <<0, 1>>
        ELSE IF union > 0 THEN <<intersection, union>>
        ELSE <<0, 1>>

\* the suppression test with >= in place of >
IouAtLeast(iou, threshold) == iou[1] * One >= threshold * iou[2]

\* iou > threshold, the threshold in fixed point
IouAbove(iou, threshold) == iou[1] * One > threshold * iou[2]

\* sorted(detections, key=lambda x: x.get(score_key, 0), reverse=True):
\* Python's sort is stable, also with reverse=True, so detections of equal
\* score keep their input order.  Position of input element i in the result:
SortedPositionTiesReversed(detections, i) ==
    1 + Cardinality({j \in DOMAIN detections :
            \/ detections[j].confidence > detections[i].confidence
            \/ /\ detections[j].confidence = detections[i].confidence
               /\ j > i})

SortedPosition(detections, i) ==
    1 + Cardinality({j \in DOMAIN detections :
            \/ detections[j].confidence > detections[i].confidence
            \/ /\ detections[j].confidence = detections[i].confidence
               /\ j < i})

SortByScoreDescending(detections) ==
    [p \in DOMAIN detections |->
        detections[CHOOSE i \in DOMAIN detections :
                        SortedPosition(detections, i) = p]]

\* The inner loop of apply_nms for the kept detection at index i: the set
\* `used` after every later index j, not yet used, whose IoU with box i is
\* above the threshold has been added.
SuppressedByNextOnly(sorted_detections, i, used, threshold) ==
    used \cup {j \in {i + 1} \cap DOMAIN sorted_detections :
                /\ j \notin used
                /\ IouAbove(calculate_iou(sorted_detections[i].bbox,
                                          sorted_detections[j].bbox), threshold)}

SuppressedBy(sorted_detections, i, used, threshold) ==
    used \cup {j \in (i + 1)..Len(sorted_detections) :
                /\ j \notin used
                /\ IouAbove(calculate_iou(sorted_detections[i].bbox,
                                          sorted_detections[j].bbox), threshold)}

\* The outer loop of apply_nms from index i on.
RECURSIVE NmsLoop(_, _, _, _, _)
NmsLoop(sorted_detections, i, keep, used, threshold) ==
    IF i > Len(sorted_detections) THEN keep
    ELSE IF i \in used
         THEN NmsLoop(sorted_detections, i + 1, keep, used, threshold)
         ELSE NmsLoop(sorted_detections, i + 1,
                      Append(keep, sorted_detections[i]),
                      SuppressedBy(sorted_detections, i, used, threshold),
                      threshold)

\* apply_nms walking the detections in input order, the sort left out
apply_nms_unsorted(detections, threshold) ==
    IF detections = <<>> THEN <<>>
    ELSE NmsLoop(detections, 1, <<>>, {}, threshold)

apply_nms(detections, threshold) ==
    IF detections = <<>> THEN <<>>
    ELSE NmsLoop(SortByScoreDescending(detections), 1, <<>>, {}, threshold)

(***************************************************************************)
(* Specification SpecNms: one call of apply_nms                            *)
(***************************************************************************)
\* bounds of the inputs
MaxDets == 3
MaxCoord == 2
MaxSide == 2

\* the default threshold of apply_nms
IouThresholdDefault == 3000

NmsBoxes ==
    {<<x, 0, MaxSide, MaxSide>> : x \in 0..MaxCoord}
        \cup {<<0, 1, MaxSide, MaxSide>>,    \* shifted in y
              <<0, 0, 1, MaxSide>>,          \* narrow, inside the first
              <<1, 0, 0, MaxSide>>}          \* zero area

NmsScores == {5000, 9000}

NmsDetections == [bbox : NmsBoxes, confidence : NmsScores]

NmsThresholds == {IouThresholdDefault, 5000, One}

SeqsUpTo(S, n) == UNION {[1..k -> S] : k \in 0..n}

InitNms ==
    /\ nmsIn \in SeqsUpTo(NmsDetections, MaxDets)
    /\ nmsThr \in NmsThresholds
    /\ nmsOut = NotYet
    /\ SynIdle
    /\ MapIdle
    /\ FilIdle
    /\ PostIdle

ApplyNmsCall ==
    /\ nmsOut = NotYet
    /\ nmsOut' = apply_nms(nmsIn, nmsThr)
    /\ UNCHANGED <<nmsIn, nmsThr, synVars, mapVars, filVars, postVars>>

NextNms == ApplyNmsCall

SpecNms == InitNms /\ [][NextNms]_vars

\* C1: the list apply_nms returns holds no two distinct detections whose
\* calculate_iou value is strictly greater than the threshold.
C1_NoOverlapAboveThreshold ==
    nmsOut # NotYet =>
        \A i, j \in DOMAIN nmsOut :
            i # j => ~IouAbove(calculate_iou(nmsOut[i].bbox, nmsOut[j].bbox),
                               nmsThr)

\* C1 witness: a call that suppressed a detection and still returned two
\* overlapping detections (their IoU positive, not above the threshold).
C1_Witness ==
    /\ nmsOut # NotYet
    /\ Len(nmsOut) < Len(nmsIn)
    /\ \E i, j \in DOMAIN nmsOut :
          /\ i # j
          /\ calculate_iou(nmsOut[i].bbox, nmsOut[j].bbox)[1] > 0

\* C17: the list apply_nms returns is a sub-list of its input (every
\* element is an input element, no input element taken twice), ordered by
\* non-increasing confidence, elements of equal confidence in input order.
C17_SublistInDescendingStableOrder ==
    nmsOut # NotYet =>
        \E f \in [1..Len(nmsOut) -> 1..Len(nmsIn)] :
            /\ \A k \in 1..Len(nmsOut) : nmsOut[k] = nmsIn[f[k]]
            /\ \A k, l \in 1..Len(nmsOut) :
                k < l =>
                    \/ nmsOut[k].confidence > nmsOut[l].confidence
                    \/ /\ nmsOut[k].confidence = nmsOut[l].confidence
                       /\ f[k] < f[l]

\* C17 witness: one detection suppressed, two of equal confidence returned
\* after a more confident one that came last in the input
C17_Witness ==
    /\ nmsOut # NotYet
    /\ Len(nmsIn) = 3
    /\ Len(nmsOut) = 2
    /\ nmsIn[3].confidence > nmsIn[1].confidence
    /\ nmsOut[1] = nmsIn[3]
    /\ nmsOut[2] = nmsIn[1]
    /\ nmsIn[2].confidence = nmsIn[1].confidence
    /\ nmsIn[2] # nmsIn[1]

\* the permutations of 1..n, and a list taken in the order p
Orderings(n) == {p \in [1..n -> 1..n] : \A i, j \in 1..n : p[i] = p[j] => i = j}
Permuted(detections, p) == [i \in DOMAIN detections |-> detections[p[i]]]

\* p leaves detections of equal confidence in their relative order
KeepsTieOrder(detections, p) ==
    \A i, j \in DOMAIN detections :
        (i < j /\ detections[p[i]].confidence = detections[p[j]].confidence)
            => p[i] < p[j]

\* C24 as stated: for every permutation of the input, ties included,
\* apply_nms returns the same set of retained detections.
C24_SameSetForEveryPermutation ==
    nmsOut # NotYet =>
        \A p \in Orderings(Len(nmsIn)) :
            Range(apply_nms(Permuted(nmsIn, p), nmsThr)) = Range(nmsOut)

\* C24 amended: for every permutation of the input that leaves detections of
\* equal confidence in their relative order, apply_nms returns the same list.
C24_SameListForTieKeepingPermutation ==
    nmsOut # NotYet =>
        \A p \in Orderings(Len(nmsIn)) :
            KeepsTieOrder(nmsIn, p) =>
                apply_nms(Permuted(nmsIn, p), nmsThr) = nmsOut

\* C24 witness: three detections, two of them of equal confidence, one
\* suppressed, and a permutation other than the identity that keeps the ties
C24_Witness ==
    /\ nmsOut # NotYet
    /\ Len(nmsIn) = 3
    /\ Len(nmsOut) = 2
    /\ \E i, j \in DOMAIN nmsIn : i # j /\ nmsIn[i].confidence = nmsIn[j].confidence
    /\ \E p \in Orderings(3) :
          /\ KeepsTieOrder(nmsIn, p)
          /\ Permuted(nmsIn, p) # nmsIn
          /\ apply_nms(Permuted(nmsIn, p), nmsThr) = nmsOut

\* the IoU of two boxes, a fraction, is strictly greater than the threshold
ExceedsThreshold(box1, box2, threshold) ==
    LET iou == calculate_iou(box1, box2)
    IN  iou[2] > 0 /\ iou[1] * One > threshold * iou[2]

\* C26: the first input detection of the highest confidence is returned, and
\* every input detection not returned has an IoU strictly above the
\* threshold with a returned detection of at least its confidence.
C26_RemovedOnlyForCause ==
    (nmsOut # NotYet /\ nmsIn # <<>>) =>
        \E f \in [1..Len(nmsOut) -> 1..Len(nmsIn)] :
            /\ \A k, l \in 1..Len(nmsOut) : f[k] = f[l] => k = l
            /\ \A k \in 1..Len(nmsOut) : nmsOut[k] = nmsIn[f[k]]
            /\ Len(nmsOut) >= 1
            /\ \A i \in DOMAIN nmsIn : nmsIn[i].confidence <= nmsOut[1].confidence
            /\ \A i \in 1..(f[1] - 1) : nmsIn[i].confidence < nmsOut[1].confidence
            /\ \A i \in DOMAIN nmsIn :
                  (\A k \in 1..Len(nmsOut) : f[k] # i) =>
                     \E k \in 1..Len(nmsOut) :
                        /\ nmsOut[k].confidence >= nmsIn[i].confidence
                        /\ ExceedsThreshold(nmsOut[k].bbox, nmsIn[i].bbox, nmsThr)

\* C26 witness: three detections of equal confidence, one of them removed,
\* the first of the input returned first
C26_Witness ==
    /\ nmsOut # NotYet
    /\ Len(nmsIn) = 3
    /\ Len(nmsOut) = 2
    /\ \A i, j \in DOMAIN nmsIn : nmsIn[i].confidence = nmsIn[j].confidence
    /\ nmsOut[1] = nmsIn[1]

\* C27: apply_nms applied to its own result, with the same threshold,
\* returns that result.
C27_Idempotent ==
    nmsOut # NotYet => apply_nms(nmsOut, nmsThr) = nmsOut

\* C27 witness: a call that removed a detection and returned two of equal
\* confidence that overlap
C27_Witness ==
    /\ nmsOut # NotYet
    /\ Len(nmsOut) = 2
    /\ Len(nmsIn) = 3
    /\ nmsOut[1].confidence = nmsOut[2].confidence
    /\ nmsOut[1] # nmsOut[2]
    /\ calculate_iou(nmsOut[1].bbox, nmsOut[2].bbox)[1] > 0

(***************************************************************************)
(* mapping.py: LabelMapper                                                 *)
(*                                                                         *)
(* A Python dict with string keys is a function on its keys; a key that is *)
(* absent is not in its DOMAIN.  The cache key                             *)
(* f"{raw_label}_{hash(tuple(candidate_labels))}" is the pair of the raw   *)
(* label and the candidate tuple: hash is taken to be injective on the     *)
(* tuples of a run.  Of the classifier's answer the model keeps the top    *)
(* label and its score, the two fields every decision reads; 'all_scores'  *)
(* is carried through by the code and read by no decision.                 *)
(***************************************************************************)
\* Python None
NoneValue == "<None>"

\* d.get(k, default)
Get(d, k, default) == IF k \in DOMAIN d THEN d[k] ELSE default

\* d[k] = v on a dict
Put(d, k, v) == (k :> v) @@ d

\* thresholds of map_label and defaults of map_labels
DirectMatchMinConfidence == 8000
ZeroShotMaxConfidence == 9000
ImprovementMargin == 1000
LowConfidence == 6000
MappingThresholdDefault == 5000

cache_key(raw_label, candidate_labels) == <<raw_label, candidate_labels>>

\* self.zero_shot_classifier(raw_label, candidate_labels): the external
\* classifier.  It raises while it is failing, and on an empty candidate
\* list; otherwise it ranks the candidates, the label it prefers first, and
\* the model keeps result['labels'][0] and result['scores'][0].
ClassifierRaises(raw_label, candidate_labels) ==
    zsFailing \/ candidate_labels = <<>>

ClassifierTop(raw_label, candidate_labels) ==
    [mapped_label |->
        IF zsModel.prefers \in Range(candidate_labels) THEN zsModel.prefers
        ELSE candidate_labels[1],
     mapping_confidence |-> zsModel.score]

\* what zero_shot_map returns when it does not, or cannot, ask the classifier
ZeroShotUnavailable(raw_label) ==
    [mapped_label |-> raw_label, mapping_confidence |-> One]

\* LabelMapper.zero_shot_map.  Returns the dict it returns (result), the
\* cache it leaves (cache), the classifier calls it made as <<key, ok>>
\* pairs (invoked), and whether it answered from the cache (cached).
zero_shot_map_uncached(raw_label, candidate_labels, cacheNow) ==
    LET key == cache_key(raw_label, candidate_labels)
    IN  IF ~use_zero_shot
        THEN [result |-> ZeroShotUnavailable(raw_label), cache |-> cacheNow,
              invoked |-> <<>>, cached |-> FALSE]
        ELSE IF ClassifierRaises(raw_label, candidate_labels)
        THEN [result |-> ZeroShotUnavailable(raw_label), cache |-> cacheNow,
              invoked |-> <<<<key, FALSE>>>>, cached |-> FALSE]
        ELSE [result |-> ClassifierTop(raw_label, candidate_labels),
              cache |-> Put(cacheNow, key,
                            ClassifierTop(raw_label, candidate_labels)),
              invoked |-> <<<<key, TRUE>>>>, cached |-> FALSE]

\* zero_shot_map answering a cache hit with the fallback dict in place of
\* the cached one
zero_shot_map_stale(raw_label, candidate_labels, cacheNow) ==
    LET key == cache_key(raw_label, candidate_labels)
    IN  IF ~use_zero_shot
        THEN [result |-> ZeroShotUnavailable(raw_label), cache |-> cacheNow,
              invoked |-> <<>>, cached |-> FALSE]
        ELSE IF key \in DOMAIN cacheNow
        THEN [result |-> ZeroShotUnavailable(raw_label), cache |-> cacheNow,
              invoked |-> <<>>, cached |-> TRUE]
        ELSE IF ClassifierRaises(raw_label, candidate_labels)
        THEN [result |-> ZeroShotUnavailable(raw_label), cache |-> cacheNow,
              invoked |-> <<<<key, FALSE>>>>, cached |-> FALSE]
        ELSE [result |-> ClassifierTop(raw_label, candidate_labels),
              cache |-> Put(cacheNow, key,
                            ClassifierTop(raw_label, candidate_labels)),
              invoked |-> <<<<key, TRUE>>>>, cached |-> FALSE]

zero_shot_map(raw_label, candidate_labels, cacheNow) ==
    LET key == cache_key(raw_label, candidate_labels)
    IN  IF ~use_zero_shot
        THEN [result |-> ZeroShotUnavailable(raw_label), cache |-> cacheNow,
              invoked |-> <<>>, cached |-> FALSE]
        ELSE IF key \in DOMAIN cacheNow
        THEN [result |-> cacheNow[key], cache |-> cacheNow,
              invoked |-> <<>>, cached |-> TRUE]
        ELSE IF ClassifierRaises(raw_label, candidate_labels)
        THEN [result |-> ZeroShotUnavailable(raw_label), cache |-> cacheNow,
              invoked |-> <<<<key, FALSE>>>>, cached |-> FALSE]
        ELSE [result |-> ClassifierTop(raw_label, candidate_labels),
              cache |-> Put(cacheNow, key,
                            ClassifierTop(raw_label, candidate_labels)),
              invoked |-> <<<<key, TRUE>>>>, cached |-> FALSE]

\* direct_matches = [label for label in candidate_labels
\*                   if label.lower() in raw_label.lower()]
DirectMatches(raw_label, candidate_labels) ==
    SelectSeq(candidate_labels,
              LAMBDA label : IsSubstr(Lower(label), Lower(raw_label)))

(***************************************************************************)
(* The string computations of map_label, tabulated over the labels and     *)
(* candidate lists the specifications use, so that each is computed once;  *)
(* outside the tables they are computed in place.                          *)
(***************************************************************************)
KnownLabels == {"van", "puppy", "red sports car", "caravan", "", "unknown", "golden retriever", "dog toy", "oak tree"}
KnownCandidates == {<<>>, <<"Car", "caravan">>, <<"caravan", "Car">>}

SynonymTable == {<<l, map_synonym(l)>> : l \in KnownLabels}

DirectMatchTable ==
    {<<<<l, c>>, DirectMatches(l, c)>> : l \in KnownLabels, c \in KnownCandidates}

map_synonym_of(raw_label) ==
    IF raw_label \in KnownLabels
    THEN (CHOOSE p \in SynonymTable : p[1] = raw_label)[2]
    ELSE map_synonym(raw_label)

DirectMatchesOf(raw_label, candidate_labels) ==
    IF raw_label \in KnownLabels /\ candidate_labels \in KnownCandidates
    THEN (CHOOSE p \in DirectMatchTable : p[1] = <<raw_label, candidate_labels>>)[2]
    ELSE DirectMatches(raw_label, candidate_labels)

\* map_label, step 1: the result returned on a high-confidence direct match
DirectMatchResultLast(result, direct_matches, raw_confidence) ==
    Put([result EXCEPT !.final_label = direct_matches[Len(direct_matches)],
                       !.mapping_method = "direct_match",
                       !.mapping_confidence = raw_confidence],
        "reason", "High confidence direct match")

DirectMatchResult(result, direct_matches, raw_confidence) ==
    Put([result EXCEPT !.final_label = direct_matches[1],
                       !.mapping_method = "direct_match",
                       !.mapping_confidence = raw_confidence],
        "reason", "High confidence direct match")

\* map_label, step 2: the result returned when the synonym differs
SynonymResultKeepsConfidence(result, synonym_mapped) ==
    [result EXCEPT !.final_label = synonym_mapped,
                   !.mapping_method = "synonym",
                   !.mapping_applied = TRUE]

SynonymResult(result, synonym_mapped) ==
    [result EXCEPT !.final_label = synonym_mapped,
                   !.mapping_method = "synonym",
                   !.mapping_confidence = One,
                   !.mapping_applied = TRUE]

\* map_label, step 3 below `raw_confidence < 0.9`: the decision on the
\* dict zero_shot_map returned
ZeroShotDecisionStrict(result, zero_shot_result, mapping_threshold, raw_confidence) ==
    LET mapping_confidence == zero_shot_result.mapping_confidence
        seen == [result EXCEPT !.zero_shot_mapped = zero_shot_result.mapped_label]
    IN  IF mapping_confidence > mapping_threshold
        THEN IF \/ mapping_confidence > raw_confidence + ImprovementMargin
                \/ raw_confidence < LowConfidence
             THEN Put([seen EXCEPT !.final_label = zero_shot_result.mapped_label,
                                   !.mapping_method = "zero_shot",
                                   !.mapping_confidence = mapping_confidence,
                                   !.mapping_applied = TRUE],
                      "reason", "Beneficial zero-shot mapping")
             ELSE Put(seen, "reason", "Original prediction more confident")
        ELSE Put(seen, "reason", "Mapping confidence too low")

ZeroShotDecision(result, zero_shot_result, mapping_threshold, raw_confidence) ==
    LET mapping_confidence == zero_shot_result.mapping_confidence
        seen == [result EXCEPT !.zero_shot_mapped = zero_shot_result.mapped_label]
    IN  IF mapping_confidence >= mapping_threshold
        THEN IF \/ mapping_confidence > raw_confidence + ImprovementMargin
                \/ raw_confidence < LowConfidence
             THEN Put([seen EXCEPT !.final_label = zero_shot_result.mapped_label,
                                   !.mapping_method = "zero_shot",
                                   !.mapping_confidence = mapping_confidence,
                                   !.mapping_applied = TRUE],
                      "reason", "Beneficial zero-shot mapping")
             ELSE Put(seen, "reason", "Original prediction more confident")
        ELSE Put(seen, "reason", "Mapping confidence too low")

\* map_label asking the classifier also at a confidence of exactly 0.9
map_label_asks_at_limit(raw_label, candidate_labels, mapping_threshold, raw_confidence, cacheNow) ==
    LET result == [raw_label |-> raw_label,
                   synonym_mapped |-> NoneValue,
                   zero_shot_mapped |-> NoneValue,
                   final_label |-> raw_label,
                   mapping_method |-> "none",
                   mapping_confidence |-> raw_confidence,
                   mapping_applied |-> FALSE]
        direct_matches == DirectMatchesOf(raw_label, candidate_labels)
        synonym_mapped == map_synonym_of(raw_label)
        afterSynonym == [result EXCEPT !.synonym_mapped = synonym_mapped]
        zs == zero_shot_map(raw_label, candidate_labels, cacheNow)
        NoCall(r) == [result |-> r, cache |-> cacheNow, invoked |-> <<>>,
                      cached |-> FALSE, zs |-> <<>>]
    IN  IF /\ candidate_labels # <<>>
           /\ direct_matches # <<>>
           /\ raw_confidence > DirectMatchMinConfidence
        THEN NoCall(DirectMatchResult(result, direct_matches, raw_confidence))
        ELSE IF synonym_mapped # raw_label
        THEN NoCall(SynonymResult(afterSynonym, synonym_mapped))
        ELSE IF candidate_labels # <<>> /\ use_zero_shot
        THEN IF raw_confidence <= ZeroShotMaxConfidence
             THEN [result |-> ZeroShotDecision(afterSynonym, zs.result,
                                               mapping_threshold, raw_confidence),
                   cache |-> zs.cache, invoked |-> zs.invoked,
                   cached |-> zs.cached, zs |-> <<zs.result>>]
             ELSE NoCall(Put(afterSynonym, "reason",
                             "Original prediction too confident for mapping"))
        ELSE NoCall(afterSynonym)

\* LabelMapper.map_label.  Returns the dict it returns (result), and of its
\* zero_shot_map call, if it made one: the cache left, the classifier calls
\* made, whether the cache answered, and the dict returned (zs, a list
\* that is empty when zero_shot_map was not called).
map_label(raw_label, candidate_labels, mapping_threshold, raw_confidence, cacheNow) ==
    LET result == [raw_label |-> raw_label,
                   synonym_mapped |-> NoneValue,
                   zero_shot_mapped |-> NoneValue,
                   final_label |-> raw_label,
                   mapping_method |-> "none",
                   mapping_confidence |-> raw_confidence,
                   mapping_applied |-> FALSE]
        direct_matches == DirectMatchesOf(raw_label, candidate_labels)
        synonym_mapped == map_synonym_of(raw_label)
        afterSynonym == [result EXCEPT !.synonym_mapped = synonym_mapped]
        zs == zero_shot_map(raw_label, candidate_labels, cacheNow)
        NoCall(r) == [result |-> r, cache |-> cacheNow, invoked |-> <<>>,
                      cached |-> FALSE, zs |-> <<>>]
    IN  IF /\ candidate_labels # <<>>
           /\ direct_matches # <<>>
           /\ raw_confidence > DirectMatchMinConfidence
        THEN NoCall(DirectMatchResult(result, direct_matches, raw_confidence))
        ELSE IF synonym_mapped # raw_label
        THEN NoCall(SynonymResult(afterSynonym, synonym_mapped))
        ELSE IF candidate_labels # <<>> /\ use_zero_shot
        THEN IF raw_confidence < ZeroShotMaxConfidence
             THEN [result |-> ZeroShotDecision(afterSynonym, zs.result,
                                               mapping_threshold, raw_confidence),
                   cache |-> zs.cache, invoked |-> zs.invoked,
                   cached |-> zs.cached, zs |-> <<zs.result>>]
             ELSE NoCall(Put(afterSynonym, "reason",
                             "Original prediction too confident for mapping"))
        ELSE NoCall(afterSynonym)

\* map_labels: the dict appended for one detection
MappedDetection(detection, mapping_result) ==
    [mapped_label |-> mapping_result.final_label,
     mapping_method |-> mapping_result.mapping_method,
     mapping_confidence |-> mapping_result.mapping_confidence,
     mapping_applied |-> Get(mapping_result, "mapping_applied", FALSE),
     mapping_reason |-> Get(mapping_result, "reason", "No mapping needed"),
     mapping_details |-> mapping_result] @@ detection

\* map_labels: the loop over the detections, from the first of `detections`
\* on; acc holds the list built so far, the cache, the classifier calls
\* made and, per detection, what its map_label call did with the classifier.
RECURSIVE MapLabelsLoop(_, _, _, _)
MapLabelsLoop(detections, candidate_labels, mapping_threshold, acc) ==
    IF detections = <<>> THEN acc
    ELSE LET detection == Head(detections)
             raw_label == Get(detection, "raw_label", "unknown")
             raw_confidence == Get(detection, "calibrated_confidence",
                                   Get(detection, "confidence", One))
             m == map_label(raw_label, candidate_labels, mapping_threshold,
                            raw_confidence, acc.cache)
         IN  MapLabelsLoop(Tail(detections), candidate_labels, mapping_threshold,
                 [mapped_detections |->
                      Append(acc.mapped_detections,
                             MappedDetection(detection, m.result)),
                  cache |-> m.cache,
                  invoked |-> acc.invoked \o m.invoked,
                  calls |-> Append(acc.calls, [invoked |-> m.invoked,
                                               cached |-> m.cached,
                                               zs |-> m.zs])])

map_labels(detections, candidate_labels, mapping_threshold, cacheNow) ==
    MapLabelsLoop(detections, candidate_labels, mapping_threshold,
                  [mapped_detections |-> <<>>, cache |-> cacheNow,
                   invoked |-> <<>>, calls |-> <<>>])

(***************************************************************************)
(* Specification SpecMapper: one LabelMapper over any sequence of          *)
(* map_label, zero_shot_map and map_labels calls, the external classifier  *)
(* failing and recovering in between.                                      *)
(***************************************************************************)
\* bounds: detections per map_labels call; the count at which the history
\* of classifier calls stops counting
MaxBatch == 2
MaxCount == 2

L_Car_caravan == <<"Car", "caravan">>
L_caravan_Car == <<"caravan", "Car">>

\* raw labels: no table entry ("van"), a synonym, and a label that contains
\* both candidates
MapRawLabels == {L_van, L_puppy, L_caravan}

\* candidate_labels: None or [] (both falsy), and one set in its two orders
MapCandidates == {<<>>, L_Car_caravan, L_caravan_Car}

MapConfidences == {5000, 6000, 8000, 8500, 9000}

\* every call passes the default mapping_threshold
MapThresholds == {MappingThresholdDefault}

\* the label the classifier ranks first and the score it gives it
ZsModels == {[prefers |-> "Car", score |-> 4000],
             [prefers |-> "caravan", score |-> 5000],
             [prefers |-> "Car", score |-> 9500]}

\* detections handed to map_labels: with a confidence, with a calibrated
\* confidence that takes precedence, and without label and confidence
MapDetections ==
    {[raw_label |-> L_van, confidence |-> 5000],
     [raw_label |-> L_red_sports_car, confidence |-> 9000,
      calibrated_confidence |-> 6000],
     [bbox |-> <<0, 0, 30, 20>>]}

\* history of classifier calls: per <<raw label, candidate set>> the calls
\* made, per cache key the calls that returned; counting stops at MaxCount
CountOf(counts, key) == IF key \in DOMAIN counts THEN counts[key] ELSE 0

Bump(counts, key) == Put(counts, key, Min2(CountOf(counts, key) + 1, MaxCount))

set_key(key) == <<key[1], Range(key[2])>>

RECURSIVE RecordAsked(_, _)
RecordAsked(asked, invoked) ==
    IF invoked = <<>> THEN asked
    ELSE RecordAsked(Bump(asked, set_key(Head(invoked)[1])), Tail(invoked))

RECURSIVE RecordAnswered(_, _)
RecordAnswered(answered, invoked) ==
    IF invoked = <<>> THEN answered
    ELSE RecordAnswered(IF Head(invoked)[2]
                        THEN Bump(answered, Head(invoked)[1])
                        ELSE answered,
                        Tail(invoked))

InitMapper ==
    /\ use_zero_shot \in BOOLEAN
    /\ cache = <<>>
    /\ zsModel \in ZsModels
    /\ zsFailing = FALSE
    /\ mapThreshold \in MapThresholds
    /\ zsAsked = <<>>
    /\ zsAnswered = <<>>
    /\ last = NoCallYet
    /\ SynIdle
    /\ NmsIdle
    /\ FilIdle
    /\ PostIdle

MapperFrame == UNCHANGED <<use_zero_shot, zsModel, zsFailing, mapThreshold,
                           synVars, nmsVars, filVars, postVars>>

MapLabelCall ==
    \E raw_label \in MapRawLabels, candidate_labels \in MapCandidates,
       raw_confidence \in MapConfidences :
        LET m == map_label(raw_label, candidate_labels, mapThreshold,
                           raw_confidence, cache)
        IN  /\ cache' = m.cache
            /\ zsAsked' = RecordAsked(zsAsked, m.invoked)
            /\ zsAnswered' = RecordAnswered(zsAnswered, m.invoked)
            /\ last' = [op |-> "map_label",
                        raw_label |-> raw_label,
                        candidate_labels |-> candidate_labels,
                        raw_confidence |-> raw_confidence,
                        result |-> m.result,
                        invoked |-> m.invoked,
                        cached |-> m.cached,
                        zs |-> m.zs]
            /\ MapperFrame

ZeroShotMapCall ==
    \E candidate_labels \in MapCandidates :
        LET z == zero_shot_map(L_van, candidate_labels, cache)
        IN  /\ cache' = z.cache
            /\ zsAsked' = RecordAsked(zsAsked, z.invoked)
            /\ zsAnswered' = RecordAnswered(zsAnswered, z.invoked)
            /\ last' = [op |-> "zero_shot_map",
                        raw_label |-> L_van,
                        candidate_labels |-> candidate_labels,
                        result |-> z.result,
                        invoked |-> z.invoked,
                        cached |-> z.cached]
            /\ MapperFrame

MapLabelsCall ==
    \E detections \in SeqsUpTo(MapDetections, MaxBatch),
       candidate_labels \in {<<>>, L_Car_caravan} :
        LET m == map_labels(detections, candidate_labels, mapThreshold, cache)
        IN  /\ cache' = m.cache
            /\ zsAsked' = RecordAsked(zsAsked, m.invoked)
            /\ zsAnswered' = RecordAnswered(zsAnswered, m.invoked)
            /\ last' = [op |-> "map_labels",
                        detections |-> detections,
                        candidate_labels |-> candidate_labels,
                        mapped_detections |-> m.mapped_detections,
                        invoked |-> m.invoked,
                        calls |-> m.calls]
            /\ MapperFrame

\* the external classifier starts failing (model unavailable, time-out)
ClassifierFails ==
    /\ use_zero_shot
    /\ ~zsFailing
    /\ zsFailing' = TRUE
    /\ UNCHANGED <<use_zero_shot, cache, zsModel, mapThreshold, zsAsked,
                   zsAnswered, last, synVars, nmsVars, filVars, postVars>>

ClassifierRecovers ==
    /\ zsFailing
    /\ zsFailing' = FALSE
    /\ UNCHANGED <<use_zero_shot, cache, zsModel, mapThreshold, zsAsked,
                   zsAnswered, last, synVars, nmsVars, filVars, postVars>>

NextMapper ==
    \/ MapLabelCall
    \/ ZeroShotMapCall
    \/ MapLabelsCall
    \/ ClassifierFails
    \/ ClassifierRecovers

SpecMapper == InitMapper /\ [][NextMapper]_vars

(***************************************************************************)
(* What the last call was, for the properties below.                       *)
(***************************************************************************)
LastIsMapLabel == last.op = "map_label"

\* the classifier was called and raised during the last call
ClassifierFailedIn(invoked) ==
    \E i \in 1..Len(invoked) : ~invoked[i][2]

\* a call consulted zero_shot_map and got the classifier's answer, fresh or
\* from the cache
ClassifierAnsweredIn(call) ==
    /\ Len(call.zs) = 1
    /\ \/ call.cached
       \/ call.invoked # <<>> /\ call.invoked[1][2]

\* a candidate matches by the rule as the spec words it: it is a
\* case-insensitive substring of the raw label, or the raw label is one of it
MatchesEitherWay(label, raw_label) ==
    \/ IsSubstr(Lower(label), Lower(raw_label))
    \/ IsSubstr(Lower(raw_label), Lower(label))

MatchesInRawLabel(label, raw_label) == IsSubstr(Lower(label), Lower(raw_label))

\* the acceptance test of rule 3, on the classifier's score
Beneficial(score, threshold, confidence) ==
    /\ score >= threshold
    /\ \/ score > confidence + ImprovementMargin
       \/ confidence < LowConfidence

\* C3: when the zero-shot classifier raises during map_label, the result
\* is that of rule 4: final_label is the raw label, mapping_method is 'none'
\* and mapping_applied is false.
C3_FailureDegradesToNone ==
    (LastIsMapLabel /\ ClassifierFailedIn(last.invoked)) =>
        /\ last.result.final_label = last.raw_label
        /\ last.result.mapping_method = "none"
        /\ last.result.mapping_applied = FALSE

C5_ZeroShotAcceptance ==
    (LastIsMapLabel /\ ClassifierAnsweredIn(last)) =>
        LET top == last.zs[1]
            result == last.result
        IN  IF Beneficial(top.mapping_confidence, mapThreshold,
                          last.raw_confidence)
            THEN /\ result.mapping_method = "zero_shot"
                 /\ result.final_label = top.mapped_label
                 /\ result.mapping_confidence = top.mapping_confidence
            ELSE /\ result.mapping_method = "none"
                 /\ result.final_label = last.raw_label
                 /\ "reason" \in DOMAIN result

C5_Witness ==
    /\ LastIsMapLabel
    /\ ClassifierAnsweredIn(last)
    /\ last.zs[1].mapping_confidence = mapThreshold
    /\ last.raw_confidence = 5000
    /\ last.result.mapping_method = "zero_shot"
    /\ last.result.final_label = "caravan"

\* C6 as stated: the classifier is called at most once per pair of raw
\* label and set of candidate labels, whatever the order of the candidates
\* and also after a call that failed.
C6_OncePerLabelAndCandidateSet ==
    \A k \in DOMAIN zsAsked : zsAsked[k] <= 1

\* C6 as amended: the classifier answers at most once per pair of raw label
\* and list of candidate labels in that order; once it has answered, no
\* later call with that raw label and that list calls the classifier again.
C6_OncePerLabelAndCandidateList ==
    [][/\ \A k \in DOMAIN zsAnswered' : zsAnswered'[k] <= 1
       /\ last' # last =>
            \A i \in 1..Len(last'.invoked) :
                last'.invoked[i][1] \notin DOMAIN cache]_vars

C6_Witness ==
    /\ LastIsMapLabel
    /\ last.cached
    /\ last.invoked = <<>>
    /\ last.result.zero_shot_mapped = "caravan"
    /\ CountOf(zsAnswered, cache_key(last.raw_label, last.candidate_labels)) = 1
    /\ CountOf(zsAsked, set_key(cache_key(last.raw_label, last.candidate_labels))) = 2

\* C7: when the direct-match rule does not fire and the synonym lookup of
\* the raw label gives a term other than the raw label, map_label returns
\* that term with mapping_method 'synonym' and mapping_confidence 1.0, with
\* or without candidate labels.
C7_SynonymRule ==
    (/\ LastIsMapLabel
     /\ ~(/\ last.raw_confidence > DirectMatchMinConfidence
          /\ \E i \in 1..Len(last.candidate_labels) :
                MatchesInRawLabel(last.candidate_labels[i], last.raw_label))
     /\ map_synonym_of(last.raw_label) # last.raw_label) =>
        /\ last.result.final_label = map_synonym_of(last.raw_label)
        /\ last.result.mapping_method = "synonym"
        /\ last.result.mapping_confidence = One
        /\ last.result.mapping_applied

C7_Witness ==
    /\ LastIsMapLabel
    /\ last.raw_label = L_puppy
    /\ last.candidate_labels = <<>>
    /\ last.raw_confidence = 8500
    /\ last.result.final_label = L_dog
    /\ last.result.mapping_method = "synonym"
    /\ last.result.mapping_confidence = One

\* C23: map_label stops at the first rule that accepts, and it calls
\* zero_shot_map, hence the classifier, only at rule 3: not when the direct
\* match or the synonym rule accepted, not without candidate labels, not at a
\* confidence of 0.9 or more, and not when the classifier is disabled.
C23_ClassifierOnlyAtRuleThree ==
    LastIsMapLabel =>
        LET direct == /\ last.raw_confidence > DirectMatchMinConfidence
                      /\ \E i \in 1..Len(last.candidate_labels) :
                            MatchesInRawLabel(last.candidate_labels[i], last.raw_label)
            synonym == map_synonym_of(last.raw_label) # last.raw_label
        IN  /\ direct => last.result.mapping_method = "direct_match"
            /\ (~direct /\ synonym) => last.result.mapping_method = "synonym"
            /\ last.result.mapping_method \in {"direct_match", "synonym"}
                    => direct \/ synonym
            /\ (\/ direct
                \/ synonym
                \/ last.candidate_labels = <<>>
                \/ last.raw_confidence >= 9000
                \/ ~use_zero_shot)
                    => /\ last.invoked = <<>>
                       /\ last.zs = <<>>
                       /\ ~last.cached
                       /\ last.result.mapping_method # "zero_shot"

\* C23 witness: 'van' at a confidence of exactly 0.9 with candidates given
\* and the classifier loaded and working: rule 3 is not entered
C23_Witness ==
    /\ LastIsMapLabel
    /\ last.raw_label = L_van
    /\ last.candidate_labels = L_Car_caravan
    /\ last.raw_confidence = 9000
    /\ use_zero_shot /\ ~zsFailing
    /\ cache = <<>>
    /\ last.invoked = <<>>
    /\ last.result.mapping_method = "none"

\* C8: every detection map_labels returns has a non-empty mapped_label, and
\* where no rule accepts (no direct match, no table entry, no accepted
\* answer of the classifier) the mapped_label is the raw label and the
\* mapping_method is 'none'.
C8_NeverEmptyAndFallback ==
    last.op = "map_labels" =>
        \A i \in 1..Len(last.mapped_detections) :
            LET detection == last.detections[i]
                mapped == last.mapped_detections[i]
                raw_label == Get(detection, "raw_label", "unknown")
                confidence == Get(detection, "calibrated_confidence",
                                  Get(detection, "confidence", One))
                call == last.calls[i]
                directMatch ==
                    /\ confidence > DirectMatchMinConfidence
                    /\ \E j \in 1..Len(last.candidate_labels) :
                        MatchesInRawLabel(last.candidate_labels[j], raw_label)
                accepted ==
                    /\ ClassifierAnsweredIn(call)
                    /\ Beneficial(call.zs[1].mapping_confidence, mapThreshold,
                                  confidence)
            IN  /\ mapped.mapped_label # EmptyLabel
                /\ (/\ ~directMatch
                    /\ map_synonym_of(raw_label) = raw_label
                    /\ ~accepted) =>
                        /\ mapped.mapped_label = raw_label
                        /\ mapped.mapping_method = "none"

(***************************************************************************)
(* postprocess.filter_segments, and the calibration the pipeline applies   *)
(* to a segment's confidence before it.  An optional argument is a list    *)
(* of no or one value: <<>> is None.                                       *)
(***************************************************************************)
ConfidenceThresholdDefault == 7000
MinAreaDefault == 500
None == <<>>

\* Python's truth value of an optional number: None and 0 are false
Truthy(optional) == optional # None /\ optional[1] # 0

BboxArea(bbox) == bbox[3] * bbox[4]

\* filter_segments, the tests of one loop iteration: TRUE iff the segment
\* reaches filtered.append
PassesFilters(cls_result, bbox, confidence_threshold, min_area, max_area) ==
    LET confidence == Get(cls_result, "confidence", 0)
        area == BboxArea(bbox)
    IN  /\ ~(confidence < confidence_threshold)
        /\ ~(area < min_area)
        /\ ~(Truthy(max_area) /\ area > max_area[1])

\* result = cls_result.copy(); result['bbox'] = bbox; result['area'] = area
FilteredResult(cls_result, bbox) ==
    Put(Put(cls_result, "bbox", bbox), "area", BboxArea(bbox))

\* the loop over zip(classifications, bboxes), from position i on
RECURSIVE FilterLoop(_, _, _, _, _, _, _)
FilterLoop(classifications, bboxes, confidence_threshold, min_area, max_area, i, filtered) ==
    IF i > Min2(Len(classifications), Len(bboxes)) THEN filtered
    ELSE FilterLoop(classifications, bboxes, confidence_threshold, min_area,
                    max_area, i + 1,
                    IF PassesFilters(classifications[i], bboxes[i],
                                     confidence_threshold, min_area, max_area)
                    THEN Append(filtered,
                                FilteredResult(classifications[i], bboxes[i]))
                    ELSE filtered)

filter_segments(classifications, bboxes, confidence_threshold, min_area, max_area) ==
    FilterLoop(classifications, bboxes, confidence_threshold, min_area,
               max_area, 1, <<>>)

\* Calibration of one confidence: times 0.7 for a small segment, times 0.8
\* for a large one, times 0.6 for a label of a biased class, then clamped
\* to [0, 1].
SmallArea == 1000
LargeArea == 50000

CalibrateDividing(raw_confidence, area, biased) ==
    LET size == IF area < SmallArea THEN 7
                ELSE IF area > LargeArea THEN 8 ELSE 10
        bias == IF biased THEN 6 ELSE 10
    IN  Max2(0, Min2(One, (raw_confidence * 100) \div (size * bias)))

Calibrate(raw_confidence, area, biased) ==
    LET size == IF area < SmallArea THEN 7
                ELSE IF area > LargeArea THEN 8 ELSE 10
        bias == IF biased THEN 6 ELSE 10
    IN  Max2(0, Min2(One, (raw_confidence * size * bias) \div 100))

(***************************************************************************)
(* Specification SpecFilter: the segments of one image are calibrated and  *)
(* then filtered, or filtered as they come.                                *)
(***************************************************************************)
\* bound: segments per image
MaxSegs == 2

\* classifications: above the default threshold, at it, and without a
\* confidence (read as 0.0)
FilClassifications ==
    {[raw_label |-> L_van, confidence |-> 9000],
     [raw_label |-> L_puppy, confidence |-> 7000],
     [raw_label |-> L_van]}

\* boxes of area 600 (small), 2000 and 60000 (large)
FilBboxes == {<<0, 0, 20, 30>>, <<5, 5, 40, 50>>, <<0, 0, 300, 200>>}

FilConfigs ==
    [confidence_threshold : {ConfidenceThresholdDefault, 9000},
     min_area : {MinAreaDefault, 0},
     max_area : {None, <<0>>, <<2000>>}]

InitFilter ==
    /\ filClassifications \in SeqsUpTo(FilClassifications, MaxSegs)
    /\ filBboxes \in SeqsUpTo(FilBboxes, MaxSegs)
    /\ filConfig \in FilConfigs
    /\ filStage = "raw"
    /\ filOut = <<>>
    /\ SynIdle
    /\ NmsIdle
    /\ MapIdle
    /\ PostIdle

\* the calibration stage: every segment gets its calibrated_confidence;
\* biased[i] tells whether the label of segment i is of a biased class
CalibrateSegments ==
    /\ filStage = "raw"
    /\ Len(filClassifications) = Len(filBboxes)
    /\ \E biased \in [1..Len(filClassifications) -> BOOLEAN] :
        filClassifications' =
            [i \in 1..Len(filClassifications) |->
                Put(filClassifications[i], "calibrated_confidence",
                    Calibrate(Get(filClassifications[i], "confidence", 0),
                              BboxArea(filBboxes[i]), biased[i]))]
    /\ filStage' = "calibrated"
    /\ UNCHANGED <<filBboxes, filConfig, filOut, synVars, nmsVars, mapVars,
                 postVars>>

FilterSegmentsCall ==
    /\ filStage \in {"raw", "calibrated"}
    /\ filOut' = filter_segments(filClassifications, filBboxes,
                                 filConfig.confidence_threshold,
                                 filConfig.min_area, filConfig.max_area)
    /\ filStage' = "filtered"
    /\ UNCHANGED <<filClassifications, filBboxes, filConfig,
                   synVars, nmsVars, mapVars, postVars>>

NextFilter ==
    \/ CalibrateSegments
    \/ FilterSegmentsCall

SpecFilter == InitFilter /\ [][NextFilter]_vars

\* the positions of zip(classifications, bboxes) that the drop rule as the
\* claim words it keeps: max_area counts whenever it is set
KeptByRule ==
    LET n == Min2(Len(filClassifications), Len(filBboxes))
        dropped(i) ==
            \/ Get(filClassifications[i], "confidence", 0)
                    < filConfig.confidence_threshold
            \/ BboxArea(filBboxes[i]) < filConfig.min_area
            \/ /\ filConfig.max_area # None
               /\ BboxArea(filBboxes[i]) > filConfig.max_area[1]
    IN  {i \in 1..n : ~dropped(i)}

\* C9: filter_segments drops a segment iff its confidence is below
\* confidence_threshold, or its area is below min_area, or max_area is set
\* (0 included) and its area exceeds it; the others are returned in input
\* order, each with its bbox and its area w*h.
C9_DropsExactlyByRule ==
    filStage = "filtered" =>
        /\ Len(filOut) = Cardinality(KeptByRule)
        /\ \A k \in 1..Len(filOut) :
            \E i \in KeptByRule :
                /\ Cardinality({j \in KeptByRule : j < i}) = k - 1
                /\ filOut[k] = Put(Put(filClassifications[i], "bbox", filBboxes[i]),
                                   "area", filBboxes[i][3] * filBboxes[i][4])

MaxIouCoord == 2
MaxIouSide == 2

IouBoxes ==
    {<<x, y, w, h>> : x \in 0..MaxIouCoord, y \in 0..MaxIouCoord,
                      w \in 0..MaxIouSide, h \in 0..MaxIouSide}

InitIou ==
    /\ iouBox1 \in IouBoxes
    /\ iouBox2 \in IouBoxes
    /\ iouOut = <<>>
    /\ SynIdle /\ NmsIdle /\ MapIdle /\ FilIdle
    /\ AggIdle /\ QualIdle /\ RunIdle /\ MoreIdle

\* iouOut holds calculate_iou(box1, box2) and calculate_iou(box2, box1)
CalculateIouCall ==
    /\ iouOut = <<>>
    /\ iouOut' = <<calculate_iou(iouBox1, iouBox2), calculate_iou(iouBox2, iouBox1)>>
    /\ UNCHANGED <<iouBox1, iouBox2, synVars, nmsVars, mapVars, filVars,
                   aggVars, qualVars, runVars, moreVars>>

NextIou == CalculateIouCall

SpecIou == InitIou /\ [][NextIou]_vars

\* two returned values are the same float
SameValue(iou1, iou2) == iou1[1] * iou2[2] = iou2[1] * iou1[2]

\* the unit pixel cells a box covers
Cells(box) ==
    {<<cx, cy>> \in (0..(MaxIouCoord + MaxIouSide)) \X (0..(MaxIouCoord + MaxIouSide)) :
        /\ box[1] <= cx /\ cx < box[1] + box[3]
        /\ box[2] <= cy /\ cy < box[2] + box[4]}

\* C14: calculate_iou(A, B) equals calculate_iou(B, A) for all boxes with
\* non-negative integer coordinates.
C14_IouSymmetric ==
    iouOut # <<>> => SameValue(iouOut[1], iouOut[2])

C14_Witness ==
    /\ iouOut # <<>>
    /\ iouBox1 = <<0, 0, 2, 2>>
    /\ iouBox2 = <<1, 1, 2, 1>>
    /\ iouOut[1] = <<1, 5>>
    /\ iouOut[2] = <<1, 5>>

RECURSIVE SeqSum(_)
SeqSum(numbers) ==
    IF numbers = <<>> THEN 0 ELSE Head(numbers) + SeqSum(Tail(numbers))

SeqMax(numbers) == CHOOSE m \in Range(numbers) : \A n \in Range(numbers) : n <= m
SeqMin(numbers) == CHOOSE m \in Range(numbers) : \A n \in Range(numbers) : m <= n

\* np.mean
Mean(numbers) == <<SeqSum(numbers), Len(numbers)>>

\* np.std squared: mean of the squares minus the square of the mean
Variance(numbers) ==
    LET n == Len(numbers)
        squares == [i \in 1..n |-> numbers[i] * numbers[i]]
    IN  <<n * SeqSum(squares) - SeqSum(numbers) * SeqSum(numbers), n * n>>

\* sorted(numbers)
SortedNumbers(numbers) ==
    [p \in DOMAIN numbers |->
        numbers[CHOOSE i \in DOMAIN numbers :
            p = 1 + Cardinality({j \in DOMAIN numbers :
                        \/ numbers[j] < numbers[i]
                        \/ numbers[j] = numbers[i] /\ j < i})]]

\* np.median
Median(numbers) ==
    LET n == Len(numbers)
        sorted == SortedNumbers(numbers)
    IN  IF n % 2 = 1 THEN <<sorted[(n + 1) \div 2], 1>>
        ELSE <<sorted[n \div 2] + sorted[n \div 2 + 1], 2>>

\* keys of an ordered dict, value of a key that is present
Keys(pairs) == {pairs[i][1] : i \in DOMAIN pairs}
ValueOf(pairs, key) == pairs[CHOOSE i \in DOMAIN pairs : pairs[i][1] = key][2]

\* detection.get('mapped_label', detection.get('raw_label', 'unknown'))
ClassLabel(detection) ==
    Get(detection, "mapped_label", Get(detection, "raw_label", "unknown"))

\* group_by_class with groups[label] = [detection] in place of the append
RECURSIVE GroupLoopKeepsLast(_, _)
GroupLoopKeepsLast(detections, groups) ==
    IF detections = <<>> THEN groups
    ELSE LET detection == Head(detections)
             label == ClassLabel(detection)
         IN  GroupLoopKeepsLast(Tail(detections),
                IF label \notin Keys(groups)
                THEN Append(groups, <<label, <<detection>>>>)
                ELSE [i \in DOMAIN groups |->
                        IF groups[i][1] = label
                        THEN <<label, <<detection>>>>
                        ELSE groups[i]])

group_by_class_keeps_last(detections) == GroupLoopKeepsLast(detections, <<>>)

\* the loop of group_by_class over the detections not yet grouped
RECURSIVE GroupLoop(_, _)
GroupLoop(detections, groups) ==
    IF detections = <<>> THEN groups
    ELSE LET detection == Head(detections)
             label == ClassLabel(detection)
         IN  GroupLoop(Tail(detections),
                IF label \notin Keys(groups)
                THEN Append(groups, <<label, <<detection>>>>)
                ELSE [i \in DOMAIN groups |->
                        IF groups[i][1] = label
                        THEN <<label, Append(groups[i][2], detection)>>
                        ELSE groups[i]])

group_by_class(detections) == GroupLoop(detections, <<>>)

Confidences(detections) ==
    [i \in DOMAIN detections |-> Get(detections[i], "confidence", 0)]

Areas(detections) ==
    [i \in DOMAIN detections |-> Get(detections[i], "area", 0)]

\* calculate_class_statistics: the dict of one class
ClassStatistics(detections) ==
    LET confidences == Confidences(detections)
        areas == Areas(detections)
    IN  [count |-> Len(detections),
         avg_confidence |-> IF confidences # <<>> THEN Mean(confidences) ELSE <<0, 1>>,
         max_confidence |-> IF confidences # <<>> THEN SeqMax(confidences) ELSE 0,
         min_confidence |-> IF confidences # <<>> THEN SeqMin(confidences) ELSE 0,
         total_area |-> SeqSum(areas),
         avg_area |-> IF areas # <<>> THEN Mean(areas) ELSE <<0, 1>>]

calculate_class_statistics(grouped_detections) ==
    [i \in DOMAIN grouped_detections |->
        <<grouped_detections[i][1], ClassStatistics(grouped_detections[i][2])>>]

\* the confidence classes of the reports: high above 0.8, medium from 0.5,
\* low below; a class is reliable on a majority above 0.7
HighConfidence == 8000
MediumConfidence == 5000
ReliableConfidence == 7000


IsHigh(c) == c > HighConfidence
IsMedium(c) == MediumConfidence <= c /\ c <= HighConfidence
IsLow(c) == c < MediumConfidence
IsReliable(c) == c > ReliableConfidence

\* sum(1 for c in numbers if ...)
CountHigh(numbers) == Cardinality({i \in DOMAIN numbers : IsHigh(numbers[i])})
CountMedium(numbers) == Cardinality({i \in DOMAIN numbers : IsMedium(numbers[i])})
CountLow(numbers) == Cardinality({i \in DOMAIN numbers : IsLow(numbers[i])})
CountReliable(numbers) == Cardinality({i \in DOMAIN numbers : IsReliable(numbers[i])})
CountBelow(numbers, limit) == Cardinality({i \in DOMAIN numbers : numbers[i] < limit})
CountAbove(numbers, limit) == Cardinality({i \in DOMAIN numbers : numbers[i] > limit})

\* count_objects_by_class: the dict of one class
ClassCounts(class_detections) ==
    LET confidences == Confidences(class_detections)
        areas == Areas(class_detections)
    IN  [count |-> Len(class_detections),
         confidence_stats |->
            [mean |-> Mean(confidences),
             variance |-> Variance(confidences),
             min |-> SeqMin(confidences),
             max |-> SeqMax(confidences),
             median |-> Median(confidences)],
         area_stats |->
            [mean |-> Mean(areas),
             variance |-> Variance(areas),
             min |-> SeqMin(areas),
             max |-> SeqMax(areas),
             total |-> SeqSum(areas)],
         quality_flags |->
            [high_confidence |-> CountHigh(confidences),
             medium_confidence |-> CountMedium(confidences),
             low_confidence |-> CountLow(confidences),
             reliable |-> 2 * CountReliable(confidences) > Len(confidences)]]

count_objects_by_class(detections) ==
    IF detections = <<>> THEN <<>>
    ELSE LET grouped == group_by_class(detections)
         IN  [i \in DOMAIN grouped |-> <<grouped[i][1], ClassCounts(grouped[i][2])>>]

\* aggregate_results: detection_conf / class_avg_conf if class_avg_conf > 0
\* else 1.0, the mutant giving 0.0 in the else branch
RelativeConfidenceOrZero(detection_conf, class_avg_conf) ==
    IF class_avg_conf[1] > 0
    THEN <<detection_conf * class_avg_conf[2], class_avg_conf[1]>>
    ELSE <<0, 1>>

RelativeConfidence(detection_conf, class_avg_conf) ==
    IF class_avg_conf[1] > 0
    THEN <<detection_conf * class_avg_conf[2], class_avg_conf[1]>>
    ELSE <<1, 1>>

\* aggregate_results: bbox_formats; x + w/2 is kept as <<2x + w, 2>>
BboxFormats(bbox) ==
    [xywh |-> bbox,
     xyxy |-> <<bbox[1], bbox[2], bbox[1] + bbox[3], bbox[2] + bbox[4]>>,
     center |-> <<<<2 * bbox[1] + bbox[3], 2>>, <<2 * bbox[2] + bbox[4], 2>>,
                  bbox[3], bbox[4]>>]

\* aggregate_results: the enriched copy of one detection
Enriched(detection, class_stats) ==
    LET label == ClassLabel(detection)
        withStats == IF label \in Keys(class_stats)
                     THEN Put(detection, "class_stats", ValueOf(class_stats, label))
                     ELSE detection
        class_avg_conf == IF label \in Keys(class_stats)
                          THEN ValueOf(class_stats, label).avg_confidence
                          ELSE <<0, 1>>
        withRelative == Put(withStats, "relative_confidence",
                            RelativeConfidence(Get(detection, "confidence", 0),
                                               class_avg_conf))
    IN  IF "bbox" \in DOMAIN withRelative
        THEN Put(withRelative, "bbox_formats", BboxFormats(withRelative.bbox))
        ELSE withRelative

aggregate_results(detections) ==
    IF detections = <<>> THEN <<>>
    ELSE LET class_stats == calculate_class_statistics(group_by_class(detections))
         IN  [i \in DOMAIN detections |-> Enriched(detections[i], class_stats)]

(***************************************************************************)
(* Specification SpecAggregate: the aggregation functions called on a list *)
(* of resolved detections.                                                 *)
(***************************************************************************)
\* bound: detections in the list
MaxAgg == 3

\* resolved detections: two of class 'dog', two of class 'car' with
\* confidence 0 (one by its raw_label alone), one without any label
AggDetections ==
    {[raw_label |-> L_puppy, mapped_label |-> L_dog, confidence |-> 9000,
      bbox |-> <<0, 0, 20, 30>>, area |-> 600],
     [mapped_label |-> L_dog, confidence |-> 5000, area |-> 2000],
     [raw_label |-> L_car, confidence |-> 0, area |-> 100],
     [raw_label |-> L_van, mapped_label |-> L_car, confidence |-> 0],
     [confidence |-> 7000]}

InitAggregate ==
    /\ aggIn \in SeqsUpTo(AggDetections, MaxAgg)
    /\ aggOut = NoCallYet
    /\ SynIdle /\ NmsIdle /\ MapIdle /\ FilIdle
    /\ IouIdle /\ QualIdle /\ RunIdle /\ MoreIdle

AggregateFrame ==
    UNCHANGED <<aggIn, synVars, nmsVars, mapVars, filVars,
                iouVars, qualVars, runVars, moreVars>>

GroupByClassCall ==
    /\ aggOut' = [op |-> "group_by_class", groups |-> group_by_class(aggIn)]
    /\ AggregateFrame

ClassStatisticsCall ==
    /\ aggOut' = [op |-> "calculate_class_statistics",
                  stats |-> calculate_class_statistics(group_by_class(aggIn))]
    /\ AggregateFrame

CountObjectsByClassCall ==
    /\ aggOut' = [op |-> "count_objects_by_class",
                  counts |-> count_objects_by_class(aggIn)]
    /\ AggregateFrame

AggregateResultsCall ==
    /\ aggOut' = [op |-> "aggregate_results",
                  enriched |-> aggregate_results(aggIn)]
    /\ AggregateFrame

NextAggregate ==
    \/ GroupByClassCall
    \/ ClassStatisticsCall
    \/ CountObjectsByClassCall
    \/ AggregateResultsCall

SpecAggregate == InitAggregate /\ [][NextAggregate]_vars

\* the detections of aggIn whose class label is `label`, in input order
OfClass(label) == SelectSeq(aggIn, LAMBDA d : ClassLabel(d) = label)

\* the sum of the 'count' entries of a per-class dict
RECURSIVE CountsTotal(_)
CountsTotal(pairs) ==
    IF pairs = <<>> THEN 0 ELSE Head(pairs)[2].count + CountsTotal(Tail(pairs))

\* C12: the groups of group_by_class partition the detections: every
\* detection is in the group of its label and in no other, no group is
\* empty, and the counts of calculate_class_statistics and of
\* count_objects_by_class add up to the number of detections.
C12_GroupsPartitionDetections ==
    /\ aggOut.op = "group_by_class" =>
        /\ \A i, j \in DOMAIN aggOut.groups :
                aggOut.groups[i][1] = aggOut.groups[j][1] => i = j
        /\ \A i \in DOMAIN aggOut.groups :
                /\ aggOut.groups[i][2] # <<>>
                /\ aggOut.groups[i][2] = OfClass(aggOut.groups[i][1])
        /\ \A k \in DOMAIN aggIn : ClassLabel(aggIn[k]) \in Keys(aggOut.groups)
    /\ aggOut.op = "calculate_class_statistics" =>
        CountsTotal(aggOut.stats) = Len(aggIn)
    /\ aggOut.op = "count_objects_by_class" =>
        CountsTotal(aggOut.counts) = Len(aggIn)

\* C12 witness: three detections in two groups, one of them without a
\* mapped_label
C12_Witness ==
    /\ aggOut.op = "group_by_class"
    /\ Len(aggIn) = 3
    /\ Len(aggOut.groups) = 2
    /\ aggOut.groups[1][1] = L_car
    /\ Len(aggOut.groups[1][2]) = 2
    /\ "mapped_label" \notin DOMAIN aggOut.groups[1][2][1]
    /\ aggOut.groups[2][1] = L_dog

\* C20: aggregate_results returns one enriched detection per detection, in
\* input order, its relative_confidence the confidence over the mean
\* confidence of the detections of its class, 1.0 when that mean is 0.
C20_RelativeConfidence ==
    aggOut.op = "aggregate_results" =>
        /\ Len(aggOut.enriched) = Len(aggIn)
        /\ \A i \in DOMAIN aggIn :
            LET enriched == aggOut.enriched[i]
                confidence == Get(aggIn[i], "confidence", 0)
                group == Confidences(OfClass(ClassLabel(aggIn[i])))
            IN  /\ \A key \in DOMAIN aggIn[i] : enriched[key] = aggIn[i][key]
                /\ IF SeqSum(group) = 0
                   THEN enriched.relative_confidence = <<1, 1>>
                   ELSE enriched.relative_confidence[1] * SeqSum(group)
                        = confidence * Len(group) * enriched.relative_confidence[2]

\* C20 witness: confidences 0.9 and 0.5 in one class (mean 0.7), and a
\* detection whose class has mean confidence 0
C20_Witness ==
    /\ aggOut.op = "aggregate_results"
    /\ Len(aggIn) = 3
    /\ aggIn[1].confidence = 9000 /\ aggIn[2].confidence = 5000
    /\ ClassLabel(aggIn[1]) = L_dog /\ ClassLabel(aggIn[2]) = L_dog
    /\ aggOut.enriched[1].relative_confidence = <<18000, 14000>>
    /\ ClassLabel(aggIn[3]) = L_car
    /\ aggOut.enriched[3].relative_confidence = <<1, 1>>

(***************************************************************************)
(* Python floats (IEEE 754 binary64, round to nearest, ties to even) for   *)
(* the quality score of generate_quality_flags, whose level depends on     *)
(* how the sum of three rounded products compares with 0.8, 0.6 and 0.4.   *)
(*                                                                         *)
(* A float in [0, 1] that is 0 or at least 2^-7 is a multiple of 2^-60;    *)
(* it is kept as the natural number float * 2^60, written in base 2^15,    *)
(* lowest digit first, <<>> for 0.  An operation computes its exact result *)
(* in units of 2^-120 and rounds it to 53 significant bits.                *)
(***************************************************************************)
LimbBits == 15
LimbBase == 32768
FloatBits == 53
FloatScale == 60

RECURSIVE Pow2(_)
Pow2(n) == IF n = 0 THEN 1 ELSE 2 * Pow2(n - 1)

RECURSIVE BitLenSmall(_)
BitLenSmall(n) == IF n = 0 THEN 0 ELSE 1 + BitLenSmall(n \div 2)

RECURSIVE BigNorm(_)
BigNorm(a) ==
    IF a = <<>> THEN <<>>
    ELSE IF a[Len(a)] = 0 THEN BigNorm(SubSeq(a, 1, Len(a) - 1))
    ELSE a

RECURSIVE BigOfInt(_)
BigOfInt(n) == IF n = 0 THEN <<>> ELSE <<n % LimbBase>> \o BigOfInt(n \div LimbBase)

RECURSIVE BigToInt(_)
BigToInt(a) == IF a = <<>> THEN 0 ELSE Head(a) + LimbBase * BigToInt(Tail(a))

RECURSIVE BigMulSmall(_, _, _)
BigMulSmall(a, k, carry) ==
    IF a = <<>> THEN BigOfInt(carry)
    ELSE LET p == Head(a) * k + carry
         IN  <<p % LimbBase>> \o BigMulSmall(Tail(a), k, p \div LimbBase)

RECURSIVE BigAddCarry(_, _, _)
BigAddCarry(a, b, carry) ==
    IF a = <<>> /\ b = <<>> THEN BigOfInt(carry)
    ELSE LET x == IF a = <<>> THEN 0 ELSE Head(a)
             y == IF b = <<>> THEN 0 ELSE Head(b)
             sum == x + y + carry
         IN  <<sum % LimbBase>>
                \o BigAddCarry(IF a = <<>> THEN <<>> ELSE Tail(a),
                               IF b = <<>> THEN <<>> ELSE Tail(b),
                               sum \div LimbBase)

BigAdd(a, b) == BigNorm(BigAddCarry(a, b, 0))

\* a - b for a >= b
RECURSIVE BigSubBorrow(_, _, _)
BigSubBorrow(a, b, borrow) ==
    IF a = <<>> THEN <<>>
    ELSE LET y == IF b = <<>> THEN 0 ELSE Head(b)
             diff == Head(a) - y - borrow
         IN  <<IF diff < 0 THEN diff + LimbBase ELSE diff>>
                \o BigSubBorrow(Tail(a), IF b = <<>> THEN <<>> ELSE Tail(b),
                                IF diff < 0 THEN 1 ELSE 0)

BigSub(a, b) == BigNorm(BigSubBorrow(a, b, 0))

\* a < b, for a and b without leading zero digits
RECURSIVE BigLess(_, _)
BigLess(a, b) ==
    IF Len(a) # Len(b) THEN Len(a) < Len(b)
    ELSE IF a = <<>> THEN FALSE
    ELSE IF a[Len(a)] # b[Len(b)] THEN a[Len(a)] < b[Len(b)]
    ELSE BigLess(BigNorm(SubSeq(a, 1, Len(a) - 1)), BigNorm(SubSeq(b, 1, Len(b) - 1)))

ShiftLimb(a) == IF a = <<>> THEN <<>> ELSE <<0>> \o a

RECURSIVE BigMul(_, _)
BigMul(a, b) ==
    IF b = <<>> THEN <<>>
    ELSE BigAdd(BigMulSmall(a, Head(b), 0), ShiftLimb(BigMul(a, Tail(b))))

\* <<a div k, a mod k>> for 0 < k <= LimbBase
RECURSIVE BigDivSmall(_, _)
BigDivSmall(a, k) ==
    IF a = <<>> THEN <<<<>>, 0>>
    ELSE LET high == BigDivSmall(Tail(a), k)
             current == high[2] * LimbBase + Head(a)
         IN  <<BigNorm(<<current \div k>> \o high[1]), current % k>>

BigBitLen(a) ==
    IF a = <<>> THEN 0 ELSE LimbBits * (Len(a) - 1) + BitLenSmall(a[Len(a)])

BigShiftLeft(a, bits) ==
    IF a = <<>> THEN <<>>
    ELSE [i \in 1..(bits \div LimbBits) |-> 0]
            \o BigMulSmall(a, Pow2(bits % LimbBits), 0)

\* <<a div 2^bits, whether a mod 2^bits is not 0>>
BigShiftRight(a, bits) ==
    LET whole == bits \div LimbBits
        dropped == SubSeq(a, 1, Min2(whole, Len(a)))
        rest == BigDivSmall(SubSeq(a, whole + 1, Len(a)), Pow2(bits % LimbBits))
    IN  <<rest[1], rest[2] # 0 \/ \E i \in DOMAIN dropped : dropped[i] # 0>>

BigIsOdd(a) == a # <<>> /\ a[1] % 2 = 1

\* n + fraction, the fraction not 0 iff inexact, cut to `bits` fewer bits by
\* rounding to nearest, ties to even; the result in units of 2^bits
RoundOff(n, inexact, bits) ==
    LET withGuard == BigShiftRight(n, bits - 1)
        guard == BigIsOdd(withGuard[1])
        kept == BigShiftRight(withGuard[1], 1)[1]
        up == guard /\ (withGuard[2] \/ inexact \/ BigIsOdd(kept))
    IN  IF up THEN BigAdd(kept, <<1>>) ELSE kept

\* the float nearest to an exact value given in units of 2^-120
ToFloat(n, inexact) ==
    LET excess == BigBitLen(n) - FloatBits
        rounded == IF excess <= 0 THEN n
                   ELSE BigShiftLeft(RoundOff(n, inexact, excess), excess)
    IN  BigShiftRight(rounded, FloatScale)[1]

FloatOne == BigShiftLeft(<<1>>, FloatScale)

\* a / b for ints 0 <= a and 0 < b
FloatDivInts(a, b) ==
    LET qr == BigDivSmall(BigShiftLeft(BigOfInt(a), 2 * FloatScale), b)
    IN  ToFloat(qr[1], qr[2] # 0)

FloatMul(x, y) == ToFloat(BigMul(x, y), FALSE)
FloatAdd(x, y) == ToFloat(BigShiftLeft(BigAdd(x, y), FloatScale), FALSE)
\* x - y for x >= y
FloatSub(x, y) == ToFloat(BigShiftLeft(BigSub(x, y), FloatScale), FALSE)
FloatMin(x, y) == IF BigLess(y, x) THEN y ELSE x
FloatGreater(x, y) == BigLess(y, x)

\* round(x, 3) in thousandths
FloatRound3(x) == BigToInt(RoundOff(BigMulSmall(x, 1000, 0), FALSE, FloatScale))

(***************************************************************************)
(* generate_quality_flags (postprocess.py).  A quotient of two ints and a  *)
(* decimal literal are floats, and so is every product and sum of the      *)
(* quality score.  np.std(areas) / np.mean(areas) > 2 is decided as        *)
(* variance > 4 * mean^2 on the exact sums, which agrees with the floats   *)
(* unless the two sides are equal.                                         *)
(***************************************************************************)
\* the float literals 0.2, 0.3, 0.4, 0.6, 0.7, 0.8 and 5
FloatPoint2 == FloatDivInts(2, 10)
FloatPoint3 == FloatDivInts(3, 10)
FloatPoint4 == FloatDivInts(4, 10)
FloatPoint6 == FloatDivInts(6, 10)
FloatPoint7 == FloatDivInts(7, 10)
FloatPoint8 == FloatDivInts(8, 10)
FloatFive == BigShiftLeft(BigOfInt(5), FloatScale)

\* Counter(classes) as an ordered dict of <<label, count>>, the labels in
\* the order of their first occurrence
Counter(classes) ==
    LET firsts == {i \in DOMAIN classes : \A j \in 1..(i - 1) : classes[j] # classes[i]}
        nth(k) == CHOOSE i \in firsts : Cardinality({j \in firsts : j < i}) = k - 1
    IN  [k \in 1..Cardinality(firsts) |->
            <<classes[nth(k)],
              Cardinality({j \in DOMAIN classes : classes[j] = classes[nth(k)]})>>]

RECURSIVE BigSumOfSquares(_)
BigSumOfSquares(numbers) ==
    IF numbers = <<>> THEN <<>>
    ELSE BigAdd(BigMul(BigOfInt(Head(numbers)), BigOfInt(Head(numbers))),
                BigSumOfSquares(Tail(numbers)))

\* np.std(areas) squared, the numerator in base 2^15
BigVariance(areas) ==
    LET total == BigOfInt(SeqSum(areas))
    IN  <<BigSub(BigMulSmall(BigSumOfSquares(areas), Len(areas), 0), BigMul(total, total)),
          Len(areas) * Len(areas)>>

\* np.std(areas) / np.mean(areas) > 2:
\* n * sum(a^2) - sum(a)^2 > 4 * sum(a)^2
HighSizeVariation(areas) ==
    LET total == BigOfInt(SeqSum(areas))
    IN  BigLess(BigMulSmall(BigMul(total, total), 5, 0),
                BigMulSmall(BigSumOfSquares(areas), Len(areas), 0))

\* the quality score with the diversity term taken as min(1.0, classes / 10)
quality_score_diversity_not_inverted(confidence_quality, total_detections, classes) ==
    FloatAdd(
        FloatAdd(FloatMul(confidence_quality, FloatPoint4),
                 FloatMul(FloatMin(FloatOne, FloatDivInts(total_detections, 20)),
                          FloatPoint3)),
        FloatMul(FloatMin(FloatOne, FloatDivInts(classes, 10)),
                 FloatPoint3))

\* generate_quality_flags, 5. Overall Quality Score
quality_score(confidence_quality, total_detections, classes) ==
    FloatAdd(
        FloatAdd(FloatMul(confidence_quality, FloatPoint4),
                 FloatMul(FloatMin(FloatOne, FloatDivInts(total_detections, 20)),
                          FloatPoint3)),
        FloatMul(FloatSub(FloatOne, FloatMin(FloatOne, FloatDivInts(classes, 10))),
                 FloatPoint3))

\* generate_quality_flags for an empty list, answering POOR
NoDetectionsAsPoor == [overall_quality |-> "POOR", flags |-> <<>>, recommendations |-> <<"Consider reviewing detection pipeline parameters">>]

NoDetections == [overall_quality |-> "NO_DETECTIONS", flags |-> <<>>, recommendations |-> <<>>]

generate_quality_flags(detections) ==
    IF detections = <<>> THEN NoDetections
    ELSE
    LET confidences == Confidences(detections)
        classes == [i \in DOMAIN detections |-> ClassLabel(detections[i])]
        areas == SelectSeq(Areas(detections), LAMBDA a : a > 0)
        high_conf_count == CountHigh(confidences)
        medium_conf_count == CountMedium(confidences)
        low_conf_count == CountLow(confidences)
        confidence_quality == FloatDivInts(high_conf_count, Len(confidences))
        confidenceFlags ==
            IF FloatGreater(confidence_quality, FloatPoint7)
            THEN [flags |-> <<"HIGH_CONFIDENCE_DETECTIONS">>, recommendations |-> <<>>]
            ELSE IF BigLess(confidence_quality, FloatPoint3)
            THEN [flags |-> <<"LOW_CONFIDENCE_DETECTIONS">>,
                  recommendations |->
                    <<"Consider lowering confidence thresholds or improving model">>]
            ELSE [flags |-> <<>>, recommendations |-> <<>>]
        class_counts == Counter(classes)
        values == [i \in DOMAIN class_counts |-> class_counts[i][2]]
        max_class_count == SeqMax(values)
        min_class_count == SeqMin(values)
        classFlags ==
            IF FloatGreater(FloatDivInts(max_class_count, min_class_count), FloatFive)
            THEN [flags |-> <<"IMBALANCED_CLASS_DISTRIBUTION">>,
                  recommendations |-> <<"Class distribution is highly imbalanced">>]
            ELSE [flags |-> <<>>, recommendations |-> <<>>]
        total_detections == Len(detections)
        densityFlags ==
            IF total_detections > 50
            THEN [flags |-> <<"HIGH_DETECTION_DENSITY">>,
                  recommendations |-> <<"Consider applying stricter filtering or NMS">>]
            ELSE IF total_detections < 5
            THEN [flags |-> <<"LOW_DETECTION_DENSITY">>,
                  recommendations |-> <<"Consider lowering confidence thresholds">>]
            ELSE [flags |-> <<>>, recommendations |-> <<>>]
        very_small == CountBelow(areas, 500)
        very_large == CountAbove(areas, 50000)
        variationFlags ==
            IF areas # <<>> /\ HighSizeVariation(areas)
            THEN <<"HIGH_SIZE_VARIATION">> ELSE <<>>
        smallFlags ==
            IF areas # <<>>
               /\ FloatGreater(FloatDivInts(very_small, Len(areas)), FloatPoint3)
            THEN [flags |-> <<"MANY_SMALL_OBJECTS">>,
                  recommendations |-> <<"Consider increasing minimum area threshold">>]
            ELSE [flags |-> <<>>, recommendations |-> <<>>]
        largeFlags ==
            IF areas # <<>>
               /\ FloatGreater(FloatDivInts(very_large, Len(areas)), FloatPoint2)
            THEN [flags |-> <<"MANY_LARGE_OBJECTS">>,
                  recommendations |->
                    <<"Large objects detected - verify they are not background">>]
            ELSE [flags |-> <<>>, recommendations |-> <<>>]
        score == quality_score(confidence_quality, total_detections, Len(class_counts))
        overall_quality ==
            IF FloatGreater(score, FloatPoint8) THEN "EXCELLENT"
            ELSE IF FloatGreater(score, FloatPoint6) THEN "GOOD"
            ELSE IF FloatGreater(score, FloatPoint4) THEN "FAIR"
            ELSE "POOR"
        levelRecommendations ==
            IF overall_quality = "POOR"
            THEN <<"Consider reviewing detection pipeline parameters">> ELSE <<>>
    IN  [overall_quality |-> overall_quality,
         quality_score |-> FloatRound3(score),
         quality_metrics |->
            [confidence_quality |-> confidence_quality, overall_score |-> score],
         flags |-> confidenceFlags.flags \o classFlags.flags \o densityFlags.flags
                    \o variationFlags \o smallFlags.flags \o largeFlags.flags,
         recommendations |->
            confidenceFlags.recommendations \o classFlags.recommendations
                \o densityFlags.recommendations \o smallFlags.recommendations
                \o largeFlags.recommendations \o levelRecommendations,
         statistics |->
            [total_detections |-> total_detections,
             confidence_distribution |->
                [high |-> high_conf_count, medium |-> medium_conf_count,
                 low |-> low_conf_count],
             class_distribution |-> class_counts,
             area_stats |->
                [mean |-> IF areas # <<>> THEN Mean(areas) ELSE <<0, 1>>,
                 variance |-> IF areas # <<>> THEN BigVariance(areas) ELSE <<<<>>, 1>>,
                 count |-> Len(areas)]]]

(***************************************************************************)
(* Specification SpecQuality: generate_quality_flags on a list of          *)
(* detections given by its length, its number of confidences above 0.8,    *)
(* its number of classes and its areas.                                    *)
(***************************************************************************)
MaxTotal == 21
MaxClasses == 11

QualLabels == <<"person", "car", "dog", "cat", "tree", "bus", "bird", "boat", "chair", "bottle", "clock", "kite">>
AreaKinds == {"none", "mixed"}

QualDetection(i, high, classes, areaKind) ==
    LET conf == IF i <= high THEN 9000 ELSE IF i % 2 = 0 THEN 6000 ELSE 3000
        base == [mapped_label |-> QualLabels[((i - 1) % classes) + 1], confidence |-> conf]
    IN  IF areaKind = "none" THEN base
        ELSE base @@ [area |-> IF i = 1 THEN 60000 ELSE 100]

QualInput(total, high, classes, areaKind) ==
    [i \in 1..total |-> QualDetection(i, high, classes, areaKind)]

InitQuality ==
    /\ \E total \in 0..MaxTotal : \E high \in 0..total :
         \E classes \in 1..Max2(1, Min2(total, MaxClasses)) : \E areaKind \in AreaKinds :
            qualIn = QualInput(total, high, classes, areaKind)
    /\ qualOut = NoCallYet
    /\ SynIdle /\ NmsIdle /\ MapIdle /\ FilIdle
    /\ IouIdle /\ AggIdle /\ RunIdle /\ MoreIdle

GenerateQualityFlagsCall ==
    /\ qualOut' = [op |-> "generate_quality_flags", result |-> generate_quality_flags(qualIn)]
    /\ UNCHANGED <<qualIn, synVars, nmsVars, mapVars, filVars, iouVars, aggVars, runVars, moreVars>>

NextQuality == GenerateQualityFlagsCall

SpecQuality == InitQuality /\ [][NextQuality]_vars

\* the counts the score is computed from
QualTotal == Len(qualIn)
QualHigh == Cardinality({i \in DOMAIN qualIn : qualIn[i].confidence > 8000})
QualClasses == Cardinality({ClassLabel(qualIn[i]) : i \in DOMAIN qualIn})

\* (high/total)*0.4 + min(1, total/20)*0.3 + (1 - min(1, classes/10))*0.3 in floats
ClaimedScore ==
    LET confidenceTerm == FloatMul(FloatDivInts(QualHigh, QualTotal), FloatPoint4)
        countTerm == FloatMul(FloatMin(FloatOne, FloatDivInts(QualTotal, 20)), FloatPoint3)
        diversityTerm == FloatMul(FloatSub(FloatOne, FloatMin(FloatOne, FloatDivInts(QualClasses, 10))), FloatPoint3)
    IN  FloatAdd(FloatAdd(confidenceTerm, countTerm), diversityTerm)

\* the same score in real numbers, times 1000 * total
ExactScoreTimesTotal ==
    400 * QualHigh + 15 * QualTotal * Min2(20, QualTotal)
        + 30 * QualTotal * (10 - Min2(10, QualClasses))

ClaimedLevel(score) ==
    IF BigLess(FloatPoint8, score) THEN "EXCELLENT"
    ELSE IF BigLess(FloatPoint6, score) THEN "GOOD"
    ELSE IF BigLess(FloatPoint4, score) THEN "FAIR"
    ELSE "POOR"

\* C13: for a non-empty list generate_quality_flags computes the score
\* (high/total)*0.4 + min(1, total/20)*0.3 + (1 - min(1, classes/10))*0.3,
\* which lies in [0, 1] and is reported within 0.001 of the real-number value;
\* the level is EXCELLENT above 0.8, GOOD above 0.6, FAIR above 0.4, else POOR
\* with a recommendation; 10 detections, 8 of them above 0.8, in 2 classes
\* give 0.71 and GOOD.
C13_QualityScoreAndLevel ==
    (qualOut.op = "generate_quality_flags" /\ qualIn # <<>>) =>
        LET result == qualOut.result
            score == result.quality_metrics.overall_score
            gap == result.quality_score * QualTotal - ExactScoreTimesTotal
        IN  /\ score = ClaimedScore
            /\ ~BigLess(FloatOne, score)
            /\ 0 <= result.quality_score /\ result.quality_score <= 1000
            /\ -QualTotal <= gap /\ gap <= QualTotal
            /\ result.overall_quality = ClaimedLevel(score)
            /\ (result.overall_quality = "POOR" =>
                    \E i \in DOMAIN result.recommendations :
                        result.recommendations[i]
                            = "Consider reviewing detection pipeline parameters")
            /\ (QualTotal = 10 /\ QualHigh = 8 /\ QualClasses = 2 =>
                    result.quality_score = 710 /\ result.overall_quality = "GOOD")

C13_Witness ==
    /\ qualOut.op = "generate_quality_flags"
    /\ QualTotal = 10 /\ QualHigh = 8 /\ QualClasses = 2
    /\ qualOut.result.quality_score = 710
    /\ qualOut.result.overall_quality = "GOOD"

(***************************************************************************)
(* create_summary_report (postprocess.py).  round(x, n) is taken on the    *)
(* exact quotient, a tie going to the even digit as round() does on a      *)
(* float that holds the tie exactly.                                       *)
(***************************************************************************)
RoundHalfEven(num, den) ==
    LET q == num \div den
        r == num % den
    IN  IF 2 * r > den \/ (2 * r = den /\ q % 2 = 1) THEN q + 1 ELSE q

EmptySummary == [total_objects |-> 0, classes_detected |-> <<>>, processing_efficiency |-> 0, quality_score |-> 0]

\* avg_confidence in thousandths, processing_efficiency and quality_score in
\* tenths of a percent
create_summary_report(detections, original_segments_count) ==
    IF detections = <<>> THEN EmptySummary
    ELSE
    LET grouped == group_by_class(detections)
        class_stats == calculate_class_statistics(grouped)
        total_objects == Len(detections)
        confidences == Confidences(detections)
        high_conf_count == CountHigh(confidences)
    IN  [total_objects |-> total_objects,
         unique_classes |-> Len(grouped),
         classes_detected |-> [i \in DOMAIN grouped |-> grouped[i][1]],
         class_distribution |->
            [i \in DOMAIN grouped |-> <<grouped[i][1], Len(grouped[i][2])>>],
         avg_confidence |-> RoundHalfEven(SeqSum(confidences), 10 * total_objects),
         confidence_distribution |->
            [high |-> CountHigh(confidences),
             medium |-> CountMedium(confidences),
             low |-> CountLow(confidences)],
         processing_efficiency |->
            IF original_segments_count > 0
            THEN RoundHalfEven(total_objects * 1000, original_segments_count)
            ELSE 0,
         quality_score |-> RoundHalfEven(high_conf_count * 1000, total_objects),
         class_statistics |-> class_stats]

(***************************************************************************)
(* Specification SpecPipeline: the pipeline run up to MaxRuns times on one *)
(* input by one process, the runs sharing the mapper and its cache.  A run *)
(* goes through the stages in the order of the data flow: filter_segments, *)
(* apply_nms, map_labels, aggregate_results, then create_summary_report    *)
(* and generate_quality_flags.  The stages are the functions above; their  *)
(* sequence is the orchestrator's, each stage taking the list the stage    *)
(* before it returned.  The classifier is deterministic: it is absent, or  *)
(* fails at every call, or gives every call the same answer.               *)
(***************************************************************************)
MaxRunSegs == 2
MaxRuns == 2

\* a segment: confidence, bbox, label
Segment(confidence, bbox, label) ==
    [classification |-> [raw_label |-> label, confidence |-> confidence], bbox |-> bbox]

EndToEndSegments == <<Segment(9000, <<0, 0, 10, 10>>, L_golden_retriever), Segment(4000, <<0, 0, 10, 10>>, L_dog_toy), Segment(8500, <<100, 100, 5, 5>>, L_oak_tree)>>

RunSegments ==
    Range(EndToEndSegments)
        \cup {Segment(7500, <<0, 0, 30, 20>>, L_van),
              Segment(9500, <<10, 0, 30, 20>>, L_puppy)}

RunSegmentLists == SeqsUpTo(RunSegments, MaxRunSegs) \cup {EndToEndSegments}

\* confidenceThreshold and minArea: the defaults, 0.5 with the default
\* minArea, 0.5 with no minimal area
RunConfigs ==
    {[confidence_threshold |-> ConfidenceThresholdDefault, min_area |-> MinAreaDefault],
     [confidence_threshold |-> 5000, min_area |-> MinAreaDefault],
     [confidence_threshold |-> 5000, min_area |-> 0]}

RunInput(segments, config, candidate_labels) ==
    [classifications |-> [i \in DOMAIN segments |-> segments[i].classification],
     bboxes |-> [i \in DOMAIN segments |-> segments[i].bbox],
     confidence_threshold |-> config.confidence_threshold,
     min_area |-> config.min_area,
     candidate_labels |-> candidate_labels]

InitPipeline ==
    /\ \E segments \in RunSegmentLists, config \in RunConfigs,
          candidate_labels \in {<<>>, L_Car_caravan} :
            runIn = RunInput(segments, config, candidate_labels)
    /\ runReports = <<>>
    /\ use_zero_shot \in BOOLEAN
    /\ zsFailing \in BOOLEAN
    /\ use_zero_shot = FALSE => zsFailing = FALSE
    /\ zsModel = [prefers |-> "Car", score |-> 9500]
    /\ cache = <<>>
    /\ mapThreshold = MappingThresholdDefault
    /\ zsAsked = <<>>
    /\ zsAnswered = <<>>
    /\ last = NoCallYet
    /\ SynIdle /\ NmsIdle /\ FilIdle
    /\ IouIdle /\ AggIdle /\ QualIdle /\ MoreIdle

RunPipeline ==
    /\ Len(runReports) < MaxRuns
    /\ \E filtered \in {filter_segments(runIn.classifications, runIn.bboxes, runIn.confidence_threshold, runIn.min_area, None)} :
       \E kept \in {apply_nms(filtered, IouThresholdDefault)} :
       \E m \in {map_labels(kept, runIn.candidate_labels, MappingThresholdDefault, cache)} :
       \E detections \in {aggregate_results(m.mapped_detections)} :
          /\ runReports' =
                Append(runReports,
                       [filtered |-> filtered,
                        kept |-> kept,
                        detections |-> detections,
                        summary |-> create_summary_report(detections, Len(runIn.classifications)),
                        quality |-> generate_quality_flags(detections)])
          /\ cache' = m.cache
          /\ zsAsked' = RecordAsked(zsAsked, m.invoked)
          /\ zsAnswered' = RecordAnswered(zsAnswered, m.invoked)
          /\ last' = [op |-> "pipeline", invoked |-> m.invoked]
    /\ UNCHANGED <<runIn, use_zero_shot, zsModel, zsFailing, mapThreshold,
                   synVars, nmsVars, filVars, iouVars, aggVars, qualVars, moreVars>>

NextPipeline == RunPipeline

SpecPipeline == InitPipeline /\ [][NextPipeline]_vars

\* the list of one field over a list of dicts
Field(dicts, key) == [i \in DOMAIN dicts |-> dicts[i][key]]

\* the end-to-end example: confidenceThreshold 0.5, no candidate labels
EndToEndInput(min_area) ==
    RunInput(EndToEndSegments,
             [confidence_threshold |-> 5000, min_area |-> min_area], <<>>)

\* segments 1 and 3 pass the filter and NMS, and the report has 2 detections
\* in 2 classes with the given canonical labels
EndToEndOutcome(report, canonical) ==
    /\ Field(report.filtered, "raw_label") = <<L_golden_retriever, L_oak_tree>>
    /\ Field(report.filtered, "bbox") = <<<<0, 0, 10, 10>>, <<100, 100, 5, 5>>>>
    /\ Field(report.kept, "raw_label") = <<L_golden_retriever, L_oak_tree>>
    /\ Field(report.detections, "raw_label") = <<L_golden_retriever, L_oak_tree>>
    /\ Field(report.detections, "mapped_label") = canonical
    /\ report.summary.total_objects = 2
    /\ Get(report.summary, "unique_classes", 0) = 2
    /\ Len(report.quality.statistics.class_distribution) = 2

\* C11 as stated: on the three segments of the example with
\* confidenceThreshold 0.5 and every other parameter at its default, only
\* segment 2 is dropped by the filter, NMS keeps segments 1 and 3, both labels
\* stay unmapped, and the report has 2 detections in 2 classes.
C11_EndToEndExample ==
    runIn = EndToEndInput(MinAreaDefault) =>
        \A i \in DOMAIN runReports :
            EndToEndOutcome(runReports[i], <<L_golden_retriever, L_oak_tree>>)

\* C11 amended: with confidenceThreshold 0.5 and minArea 0, every other
\* parameter at its default, only segment 2 is dropped by the filter, NMS
\* keeps segments 1 and 3, 'golden retriever' stays unmapped, 'oak tree'
\* resolves to 'tree' by the synonym rule, and the report has 2 detections in
\* 2 classes.
C11_EndToEndWithoutMinArea ==
    runIn = EndToEndInput(0) =>
        \A i \in DOMAIN runReports :
            /\ EndToEndOutcome(runReports[i], <<L_golden_retriever, L_tree>>)
            /\ Field(runReports[i].detections, "mapping_method") = <<"none", "synonym">>

C11_Witness ==
    /\ runIn = EndToEndInput(0)
    /\ runReports # <<>>
    /\ runReports[1].summary.total_objects = 2
    /\ Field(runReports[1].detections, "mapped_label") = <<L_golden_retriever, L_tree>>

\* C18: when no segment survives the filter, apply_nms, map_labels and
\* aggregate_results return the empty list, create_summary_report reports
\* total_objects 0 and no class, generate_quality_flags reports
\* 'NO_DETECTIONS' without flags, and the classifier has not been called.
C18_EmptyRunIsValid ==
    \A i \in DOMAIN runReports :
        runReports[i].filtered = <<>> =>
            /\ runReports[i].kept = <<>>
            /\ runReports[i].detections = <<>>
            /\ runReports[i].summary.total_objects = 0
            /\ runReports[i].summary.classes_detected = <<>>
            /\ runReports[i].summary.quality_score = 0
            /\ runReports[i].quality.overall_quality = "NO_DETECTIONS"
            /\ runReports[i].quality.flags = <<>>
            /\ runReports[i].quality.recommendations = <<>>
            /\ last.invoked = <<>>
            /\ zsAsked = <<>>
            /\ cache = <<>>

C18_Witness ==
    /\ runReports # <<>>
    /\ runReports[1].filtered = <<>>
    /\ runIn.classifications # <<>>
    /\ runIn.candidate_labels # <<>>
    /\ use_zero_shot /\ ~zsFailing
    /\ runReports[1].quality.overall_quality = "NO_DETECTIONS"

\* C19: two runs of the pipeline on the same input give the same report,
\* the second run sharing the mapper and the cache the first run filled.
C19_RunsGiveIdenticalReports ==
    \A i, j \in DOMAIN runReports : runReports[i] = runReports[j]

C19_Witness ==
    /\ Len(runReports) = 2
    /\ cache # <<>>
    /\ last.invoked = <<>>
    /\ \E i \in DOMAIN runReports[2].detections :
          /\ runReports[2].detections[i].mapping_method = "zero_shot"
          /\ runReports[2].detections[i].mapped_label = L_Car

(***************************************************************************)
(* mapping.py: add_custom_synonyms on the module's synonym table           *)
(***************************************************************************)
MaxAdds == 2

\* d[k] = v on an ordered dict: an existing key keeps its place
DictSet(d, k, v) ==
    IF DictHas(d, k)
    THEN [i \in DOMAIN d |-> IF d[i][1] = k THEN <<k, v>> ELSE d[i]]
    ELSE Append(d, <<k, v>>)

\* `for synonym in synonyms:` of add_custom_synonyms
RECURSIVE AddSynonymsLoop(_, _, _, _)
AddSynonymsLoop(mappings, reverse, canonical_label, synonyms) ==
    IF synonyms = <<>>
    THEN [SYNONYM_MAPPINGS |-> mappings, REVERSE_MAPPING |-> reverse]
    ELSE LET synonym == Head(synonyms)
             listed == DictGet(mappings, canonical_label)
         IN  IF synonym \in Range(listed)
             THEN AddSynonymsLoop(mappings, reverse, canonical_label, Tail(synonyms))
             ELSE AddSynonymsLoop(
                      DictSet(mappings, canonical_label, Append(listed, synonym)),
                      DictSet(reverse, Lower(synonym), canonical_label),
                      canonical_label, Tail(synonyms))

add_custom_synonyms(mappings, reverse, canonical_label, synonyms) ==
    AddSynonymsLoop(IF DictHas(mappings, canonical_label)
                    THEN mappings
                    ELSE Append(mappings, <<canonical_label, <<>>>>),
                    reverse, canonical_label, synonyms)

L_cat == "cat"
L_pet == "pet"
L_kitten == "kitten"
L_retriever == "retriever"
L_e_bike == "e-bike"

\* the calls made: an existing and a new canonical term; synonyms that are
\* new, listed under the term already, listed under another term, or hold
\* a character that map_synonym strips
CustomCanonicals == {L_dog, L_cat, L_pet}
CustomSynonymLists ==
    {<<L_puppy>>, <<L_retriever>>, <<L_e_bike>>, <<L_kitten, L_puppy>>}

\* the labels whose resolution is followed across the calls
ProbeLabels ==
    {L_puppy, L_kitten, L_retriever, L_e_bike, L_golden_retriever, L_bike, L_van}

\* map_synonym of every followed label against a reverse mapping
Resolved(reverse) == [l \in ProbeLabels |-> lookup_synonym(reverse, l)]
ResolvedAtImport == Resolved(REVERSE_MAPPING)

InitCustom ==
    /\ TableIdle
    /\ SynIdle /\ NmsIdle /\ MapIdle /\ FilIdle
    /\ IouIdle /\ AggIdle /\ QualIdle /\ RunIdle
    /\ SingletonIdle /\ MonIdle /\ ApiIdle

AddCustomSynonymsCall ==
    /\ Len(customCalls) < MaxAdds
    /\ \E canonical_label \in CustomCanonicals, synonyms \in CustomSynonymLists :
       \E t \in {add_custom_synonyms(synonymMappings, reverseMapping,
                                     canonical_label, synonyms)} :
       \E resolved \in {Resolved(t.REVERSE_MAPPING)} :
          /\ synonymMappings' = t.SYNONYM_MAPPINGS
          /\ reverseMapping' = t.REVERSE_MAPPING
          /\ customCalls' = Append(customCalls,
                                   [canonical_label |-> canonical_label,
                                    synonyms |-> synonyms,
                                    resolved |-> resolved])
    /\ UNCHANGED <<synVars, nmsVars, mapVars, filVars,
                   iouVars, aggVars, qualVars, runVars, singletonVars, monVars, apiVars>>

NextCustom == AddCustomSynonymsCall

SpecCustomSynonyms == InitCustom /\ [][NextCustom]_vars

\* what map_synonym returned for the followed labels before the k-th call
ResolvedBefore(k) ==
    IF k = 1 THEN ResolvedAtImport ELSE customCalls[k - 1].resolved

\* C28: after add_custom_synonyms(C, S), whatever calls came before, every
\* synonym of S resolves through map_synonym to C, and no label outside S
\* resolves differently than before the call.
C28_AddedSynonymsResolve ==
    \A k \in DOMAIN customCalls :
        /\ \A s \in Range(customCalls[k].synonyms) :
              customCalls[k].resolved[s] = customCalls[k].canonical_label
        /\ \A l \in ProbeLabels \ Range(customCalls[k].synonyms) :
              customCalls[k].resolved[l] = ResolvedBefore(k)[l]


(***************************************************************************)
(* mapping.py: get_mapper called from several threads.  A thread switch    *)
(* can fall between any two steps of the function: the test of the global, *)
(* the construction of the LabelMapper (which loads the classifier), the   *)
(* store to the global and the read of the global for the return.          *)
(***************************************************************************)
MaxGets == 2

OtherThreadsKeep(t) ==
    \A u \in Threads \ {t} : getThreads'[u] = getThreads[u]

SingletonFrame ==
    UNCHANGED <<synVars, nmsVars, mapVars, filVars,
                iouVars, aggVars, qualVars, runVars, tableVars, monVars, apiVars>>

\* a thread enters get_mapper(use_zero_shot)
GetMapperCall(t) ==
    /\ getThreads[t].pc = "idle"
    /\ Len(getThreads[t].returned) < MaxGets
    /\ \E flag \in BOOLEAN :
          getThreads' = [getThreads EXCEPT ![t].pc = "test",
                                           ![t].use_zero_shot = flag]
    /\ UNCHANGED <<globalMapper, mappers>>
    /\ SingletonFrame

\* if _global_mapper is None:
GetMapperTest(t) ==
    /\ getThreads[t].pc = "test"
    /\ getThreads' = [getThreads EXCEPT ![t].pc =
                          IF globalMapper = <<>> THEN "construct" ELSE "return"]
    /\ UNCHANGED <<globalMapper, mappers>>
    /\ SingletonFrame

\* LabelMapper(use_zero_shot=use_zero_shot): a new instance with its own cache
GetMapperConstruct(t) ==
    /\ getThreads[t].pc = "construct"
    /\ mappers' = Append(mappers, [use_zero_shot |-> getThreads[t].use_zero_shot,
                                   made_by |-> t])
    /\ getThreads' = [getThreads EXCEPT ![t].pc = "store"]
    /\ UNCHANGED globalMapper
    /\ SingletonFrame

\* _global_mapper = <the instance this thread constructed>
GetMapperStore(t) ==
    /\ getThreads[t].pc = "store"
    /\ globalMapper' =
          <<CHOOSE i \in DOMAIN mappers :
                /\ mappers[i].made_by = t
                /\ \A j \in DOMAIN mappers : mappers[j].made_by = t => j <= i>>
    /\ getThreads' = [getThreads EXCEPT ![t].pc = "return"]
    /\ UNCHANGED mappers
    /\ SingletonFrame

\* return _global_mapper
GetMapperReturn(t) ==
    /\ getThreads[t].pc = "return"
    /\ getThreads' = [getThreads EXCEPT
                          ![t].pc = "idle",
                          ![t].returned = Append(@, globalMapper[1])]
    /\ UNCHANGED <<globalMapper, mappers>>
    /\ SingletonFrame

InitSingleton ==
    /\ SingletonIdle
    /\ TableIdle /\ MonIdle /\ ApiIdle
    /\ SynIdle /\ NmsIdle /\ MapIdle /\ FilIdle
    /\ IouIdle /\ AggIdle /\ QualIdle /\ RunIdle

NextSingleton ==
    \E t \in Threads :
        \/ GetMapperCall(t)
        \/ GetMapperTest(t)
        \/ GetMapperConstruct(t)
        \/ GetMapperStore(t)
        \/ GetMapperReturn(t)

SpecSingleton == InitSingleton /\ [][NextSingleton]_vars

\* C29: under every interleaving all callers of get_mapper receive the same
\* LabelMapper instance and at most one instance is ever constructed.
C29_SingletonUnderInterleaving ==
    /\ Len(mappers) <= 1
    /\ \A t, u \in Threads :
          \A i \in DOMAIN getThreads[t].returned, j \in DOMAIN getThreads[u].returned :
              getThreads[t].returned[i] = getThreads[u].returned[j]


(***************************************************************************)
(* api/views/monitoring.py: PerformanceMonitoring.  Processing times are   *)
(* whole milliseconds; object_type_stats is the defaultdict as an ordered  *)
(* dict, a missing key being created with the default entry on access.     *)
(***************************************************************************)
MaxRequests == 3

\* defaultdict(lambda: {'count': 0, 'total_time': 0, 'successes': 0, 'failures': 0})
DefaultStats == [count |-> 0, total_time |-> 0, successes |-> 0, failures |-> 0]
StatsOf(stats, object_type) ==
    IF DictHas(stats, object_type) THEN DictGet(stats, object_type) ELSE DefaultStats

\* record_request with the per-type failure count left out
record_request_drops_failures(m, object_type, processing_time, success) ==
    LET old == StatsOf(m.object_type_stats, object_type)
    IN  [total_requests |-> m.total_requests + 1,
         successful_requests |-> m.successful_requests + (IF success THEN 1 ELSE 0),
         failed_requests |-> m.failed_requests + (IF success THEN 0 ELSE 1),
         processing_times |-> Append(m.processing_times, processing_time),
         object_type_stats |->
             DictSet(m.object_type_stats, object_type,
                     [count |-> old.count + 1,
                      total_time |-> old.total_time + processing_time,
                      successes |-> old.successes + (IF success THEN 1 ELSE 0),
                      failures |-> old.failures])]

record_request(m, object_type, processing_time, success) ==
    LET old == StatsOf(m.object_type_stats, object_type)
    IN  [total_requests |-> m.total_requests + 1,
         successful_requests |-> m.successful_requests + (IF success THEN 1 ELSE 0),
         failed_requests |-> m.failed_requests + (IF success THEN 0 ELSE 1),
         processing_times |-> Append(m.processing_times, processing_time),
         object_type_stats |->
             DictSet(m.object_type_stats, object_type,
                     [count |-> old.count + 1,
                      total_time |-> old.total_time + processing_time,
                      successes |-> old.successes + (IF success THEN 1 ELSE 0),
                      failures |-> old.failures + (IF success THEN 0 ELSE 1)])]

\* reset_stats: every field assigned afresh (session_start_time is a clock
\* reading and not kept here)
reset_stats(m) == FreshMonitoring

MonObjectTypes == {L_car, L_dog}
MonTimes == {0, 250}

MonFrame ==
    UNCHANGED <<synVars, nmsVars, mapVars, filVars,
                iouVars, aggVars, qualVars, runVars, tableVars, singletonVars, apiVars>>

InitMonitoring ==
    /\ MonIdle
    /\ TableIdle /\ SingletonIdle /\ ApiIdle
    /\ SynIdle /\ NmsIdle /\ MapIdle /\ FilIdle
    /\ IouIdle /\ AggIdle /\ QualIdle /\ RunIdle

RecordRequestCall ==
    /\ monitoring.total_requests < MaxRequests
    /\ \E object_type \in MonObjectTypes, processing_time \in MonTimes,
          success \in BOOLEAN :
          monitoring' = record_request(monitoring, object_type, processing_time, success)
    /\ monLast' = "record_request"
    /\ MonFrame

ResetStatsCall ==
    /\ monitoring' = reset_stats(monitoring)
    /\ monLast' = "reset_stats"
    /\ MonFrame

NextMonitoring == RecordRequestCall \/ ResetStatsCall

SpecMonitoring == InitMonitoring /\ [][NextMonitoring]_vars

RECURSIVE SumOfCounts(_)
SumOfCounts(stats) ==
    IF stats = <<>> THEN 0 ELSE Head(stats)[2].count + SumOfCounts(Tail(stats))

\* C30: after any sequence of record_request and reset_stats calls the total
\* equals successes plus failures, the number of recorded processing times
\* and the sum of the per-type counts; each per-type count is its successes
\* plus its failures; and right after reset_stats every counter is zero.
C30_CountersAgree ==
    /\ monitoring.total_requests
          = monitoring.successful_requests + monitoring.failed_requests
    /\ monitoring.total_requests = Len(monitoring.processing_times)
    /\ monitoring.total_requests = SumOfCounts(monitoring.object_type_stats)
    /\ \A i \in DOMAIN monitoring.object_type_stats :
          LET data == monitoring.object_type_stats[i][2]
          IN  data.count = data.successes + data.failures
    /\ monLast = "reset_stats" =>
          /\ monitoring.total_requests = 0
          /\ monitoring.successful_requests = 0
          /\ monitoring.failed_requests = 0
          /\ monitoring.processing_times = <<>>
          /\ monitoring.object_type_stats = <<>>

\* three requests recorded, two types, successes and a failure among them
C30_Witness ==
    /\ monLast = "record_request"
    /\ monitoring.total_requests = 3
    /\ monitoring.successful_requests = 2
    /\ monitoring.failed_requests = 1
    /\ Len(monitoring.object_type_stats) = 2
    /\ StatsOf(monitoring.object_type_stats, L_dog).failures = 1


(***************************************************************************)
(* api/views: the HTTP handlers over the database.  A JSON body is a       *)
(* record: an object with its members as an ordered dict, or an array with *)
(* its items.  An uploaded file carries, next to its name and size, what   *)
(* the collaborators will do with it: whether the media directory takes    *)
(* it, what the AI pipeline answers for it and whether the commit of its   *)
(* Input or Output row fails.  The random token upload_image puts before the file name, the    *)
(* row ids and the clock readings are left out; a processing time the      *)
(* pipeline reports is 250 milliseconds.                                   *)
(***************************************************************************)
JsonObject(members) == [type |-> "object", members |-> members]
JsonArray(items) == [type |-> "array", items |-> items]
HasMember(body, key) == body.type = "object" /\ DictHas(body.members, key)
Member(body, key) == DictGet(body.members, key)

\* error_handlers.py: the exception classes
ValidationAPIError(message, details) ==
    [api_error |-> TRUE, message |-> message, status_code |-> 400,
     error_code |-> "VALIDATION_ERROR", details |-> details]
ProcessingAPIError(message, details) ==
    [api_error |-> TRUE, message |-> message, status_code |-> 422,
     error_code |-> "PROCESSING_ERROR", details |-> details]
\* any exception that is no APIError and no marshmallow ValidationError
OtherException(text) ==
    [api_error |-> FALSE, message |-> text, status_code |-> 500,
     error_code |-> "INTERNAL_ERROR", details |-> text]

create_error_response(error, include_details) ==
    IF error.api_error
    THEN [status |-> error.status_code,
          body |-> JsonObject(<<
              <<"success", FALSE>>,
              <<"error", JsonObject(
                    <<<<"message", error.message>>,
                      <<"code", error.error_code>>,
                      <<"status_code", error.status_code>>>>
                    \o (IF include_details /\ error.details # ""
                        THEN <<<<"details", error.details>>>> ELSE <<>>))>>>>)]
    ELSE [status |-> 500,
          body |-> JsonObject(<<
              <<"success", FALSE>>,
              <<"error", JsonObject(
                    <<<<"message", "An unexpected error occurred">>,
                      <<"code", "INTERNAL_ERROR">>,
                      <<"status_code", 500>>>>
                    \o (IF include_details
                        THEN <<<<"details", error.message>>>> ELSE <<>>))>>>>)]

\* handle_ai_processing_error for an error text that names no model,
\* memory or timeout problem
handle_ai_processing_error(text) ==
    create_error_response(ProcessingAPIError("AI processing failed", text), FALSE)

\* file.filename.rsplit('.', 1)[1].lower()
HasDot(filename) == \E i \in 1..Len(filename) : CharAt(filename, i) = "."
Extension(filename) ==
    LET dot == CHOOSE i \in 1..Len(filename) :
                   /\ CharAt(filename, i) = "."
                   /\ \A j \in (i + 1)..Len(filename) : CharAt(filename, j) # "."
    IN  Lower(SubSeq(filename, dot + 1, Len(filename)))

ValidatedExtensions == {"png", "jpg", "jpeg", "bmp", "gif"}
\* upload_image compares the lowered extension with this list
UploadExtensions == {"jpeg", "jpg", "png", "gif", "JPG", "PNG", "GIF", "BMP", "TIFF"}

\* validate_file_upload: <<>> when the file passes, else <<the error>>
validate_file_upload(request) ==
    IF request.image = <<>>
    THEN <<ValidationAPIError("No image file provided",
                              "Please select an image file to upload")>>
    ELSE LET file == request.image[1]
         IN  IF file.filename = ""
             THEN <<ValidationAPIError("No file selected",
                                       "Please select a valid image file")>>
             ELSE IF ~HasDot(file.filename)
                     \/ Extension(file.filename) \notin ValidatedExtensions
             THEN <<ValidationAPIError("Invalid file type",
                        "Please upload a valid image file (PNG, JPG, JPEG, BMP, GIF)")>>
             ELSE IF file.too_large
             THEN <<ValidationAPIError("File too large",
                                       "Please upload an image smaller than 10MB")>>
             ELSE <<>>

\* validate_object_type: <<>> when the value passes, else <<the error>>;
\* object_type is <<>> for a missing form field, else <<the string>>
validate_object_type(object_type) ==
    IF object_type = <<>> \/ object_type = <<"">>
    THEN <<ValidationAPIError("Object type is required",
                              "Please specify the type of object to count")>>
    ELSE IF Len(Strip(object_type[1])) < 2
    THEN <<ValidationAPIError("Object type too short",
                              "Object type must be at least 2 characters long")>>
    ELSE IF Len(Strip(object_type[1])) > 50
    THEN <<ValidationAPIError("Object type too long",
                              "Object type must be less than 50 characters")>>
    ELSE <<>>

\* upload_image: the name of the saved file, or the Response object it
\* returns for a refused extension or a failed save
upload_image(file) ==
    IF Extension(file.filename) \notin UploadExtensions
    THEN [saved |-> FALSE, error |-> "Unsupported file format"]
    ELSE IF file.save = "error"
    THEN [saved |-> FALSE, error |-> "An error occured"]
    ELSE [saved |-> TRUE, filename |-> file.filename]

\* Input(...).save(), the ObjectType looked up or created, Output(...).save();
\* a commit that fails raises and leaves the rows committed before it
KnownType(st, type_name) ==
    \E i \in DOMAIN st.object_types : st.object_types[i].name = type_name
SaveRecords(st, image_path, type_name, file) ==
    IF file.db = "input" THEN [ok |-> FALSE, storage |-> st]
    ELSE LET st1 == [st EXCEPT !.inputs = Append(@, [image_path |-> image_path])]
             known == KnownType(st, type_name)
         IN  IF ~known /\ type_name \in st.refused_types THEN [ok |-> FALSE, storage |-> st1]
             ELSE LET st2 == IF known THEN st1
                             ELSE [st1 EXCEPT !.object_types =
                                       Append(@, [name |-> type_name])]
                  IN  IF file.db = "output" THEN [ok |-> FALSE, storage |-> st2]
                      ELSE [ok |-> TRUE,
                            storage |-> [st2 EXCEPT !.outputs =
                                Append(@, [predicted_count |-> file.count,
                                           object_type |-> type_name,
                                           image_path |-> image_path])]]

\* ObjectTypeSchema(many=True).dump: one dict per row
objs_schema_dump(objs) == [i \in DOMAIN objs |-> [name |-> objs[i].name]]

DefaultObjectTypes ==
    <<"car", "person", "bicycle", "dog", "cat", "tree", "building", "chair",
      "bottle", "cup">>

\* the loop over default_object_types: a refused commit raises and ends it
RECURSIVE SeedDefaults(_, _)
SeedDefaults(st, names) ==
    IF names = <<>> THEN [raised |-> FALSE, storage |-> st]
    ELSE IF KnownType(st, Head(names)) THEN SeedDefaults(st, Tail(names))
    ELSE IF Head(names) \in st.refused_types THEN [raised |-> TRUE, storage |-> st]
    ELSE SeedDefaults([st EXCEPT !.object_types = Append(@, [name |-> Head(names)])],
                      Tail(names))

\* ObjectTypeList.get; an exception leaving the handler is answered by the
\* framework with 500
object_type_list_get(st) ==
    LET seeded == IF st.object_types = <<>> THEN SeedDefaults(st, DefaultObjectTypes)
                  ELSE [raised |-> FALSE, storage |-> st]
    IN  [storage |-> seeded.storage,
         response |->
             IF seeded.raised
             THEN [status |-> 500,
                   body |-> JsonObject(<<<<"message", "Internal Server Error">>>>)]
             ELSE [status |-> 200,
                   body |-> JsonObject(<<<<"object_types",
                               objs_schema_dump(seeded.storage.object_types)>>>>)]]

\* InputList.post
input_list_post(request, st, calls, mon) ==
    LET unchanged(response) ==
            [response |-> response, storage |-> st, pipelineCalls |-> calls,
             monitoring |-> mon]
        fileError == validate_file_upload(request)
        typeError == validate_object_type(request.object_type)
    IN  IF fileError # <<>> THEN unchanged(create_error_response(fileError[1], FALSE))
        ELSE IF typeError # <<>>
        THEN unchanged(create_error_response(typeError[1], FALSE))
        ELSE
        LET file == request.image[1]
            object_type == Strip(request.object_type[1])
            uploaded == upload_image(file)
        IN  IF ~uploaded.saved
            \* os.path.join('media', <Response>) raises TypeError
            THEN [response |-> create_error_response(
                                   OtherException("expected str, not Response"), TRUE),
                  storage |-> st, pipelineCalls |-> calls,
                  monitoring |-> record_request(mon, object_type, 0, FALSE)]
            ELSE
            LET image_path == "media/" \o uploaded.filename
                st1 == [st EXCEPT !.media = Append(@, uploaded.filename)]
                calls1 == Append(calls, uploaded.filename)
            IN  IF file.ai # "ok"
                THEN [response |-> handle_ai_processing_error(file.ai),
                      storage |-> st1, pipelineCalls |-> calls1, monitoring |-> mon]
                ELSE
                LET saved == SaveRecords(st1, image_path, object_type, file)
                IN  IF ~saved.ok
                    THEN [response |-> create_error_response(
                                           OtherException("commit failed"), TRUE),
                          storage |-> saved.storage, pipelineCalls |-> calls1,
                          monitoring |-> record_request(mon, object_type, 0, FALSE)]
                    ELSE [response |->
                              [status |-> 201,
                               body |-> JsonObject(<<
                                   <<"success", TRUE>>,
                                   <<"object_type", object_type>>,
                                   <<"predicted_count", file.count>>,
                                   <<"processing_time", 250>>,
                                   <<"image_path", image_path>>>>)],
                          storage |-> saved.storage, pipelineCalls |-> calls1,
                          monitoring |-> record_request(mon, object_type,
                                                        250, TRUE)]


\* BatchProcessing._process_single_image: the result entry and the state
\* it leaves; object_type is <<>> or <<the validated string>>
process_single_image(file, object_type, auto_detect, st, calls, mon) ==
    LET failed(image_name, error, st1, calls1) ==
            [result |-> [image_name |-> image_name, success |-> FALSE,
                         error |-> error],
             storage |-> st1, pipelineCalls |-> calls1, monitoring |-> mon]
    IN  IF file.filename = "" THEN failed("unknown", "No file selected", st, calls)
        ELSE IF ~HasDot(file.filename)
                \/ Extension(file.filename) \notin ValidatedExtensions
        THEN failed(file.filename, "Invalid file type", st, calls)
        ELSE IF file.too_large THEN failed(file.filename, "File too large", st, calls)
        ELSE
        LET uploaded == upload_image(file)
        IN  IF ~uploaded.saved
            \* os.path.join('media', <Response>) raises, caught by the outer handler
            THEN failed(file.filename, "Unexpected error", st, calls)
            ELSE
            LET image_path == "media/" \o uploaded.filename
                st1 == [st EXCEPT !.media = Append(@, uploaded.filename)]
                calls1 == Append(calls, uploaded.filename)
                type_name == IF auto_detect THEN file.detected ELSE object_type[1]
            IN  IF file.ai # "ok"
                THEN failed(file.filename, "AI processing failed", st1, calls1)
                ELSE
                LET saved == SaveRecords(st1, image_path, type_name, file)
                IN  IF ~saved.ok
                    THEN failed(file.filename, "Database operation failed",
                                saved.storage, calls1)
                    ELSE [result |-> [image_name |-> file.filename,
                                      success |-> TRUE,
                                      object_type |-> type_name,
                                      predicted_count |-> file.count],
                          storage |-> saved.storage,
                          pipelineCalls |-> calls1,
                          monitoring |-> record_request(mon,
                              IF auto_detect THEN file.detected \o "_auto"
                              ELSE object_type[1], 250, TRUE)]

\* the loop of BatchProcessing.post leaving at the first failed image
RECURSIVE BatchLoopStopsAtFailure(_, _, _, _)
BatchLoopStopsAtFailure(files, object_type, auto_detect, acc) ==
    IF files = <<>> THEN acc
    ELSE LET one == process_single_image(Head(files), object_type, auto_detect,
                        acc.storage, acc.pipelineCalls, acc.monitoring)
             next == [results |-> Append(acc.results, one.result),
                      storage |-> one.storage,
                      pipelineCalls |-> one.pipelineCalls,
                      monitoring |-> one.monitoring]
         IN  IF one.result.success
             THEN BatchLoopStopsAtFailure(Tail(files), object_type, auto_detect, next)
             ELSE next

\* `for i, file in enumerate(files):` of BatchProcessing.post
RECURSIVE BatchLoop(_, _, _, _)
BatchLoop(files, object_type, auto_detect, acc) ==
    IF files = <<>> THEN acc
    ELSE LET one == process_single_image(Head(files), object_type, auto_detect,
                        acc.storage, acc.pipelineCalls, acc.monitoring)
         IN  BatchLoop(Tail(files), object_type, auto_detect,
                       [results |-> Append(acc.results, one.result),
                        storage |-> one.storage,
                        pipelineCalls |-> one.pipelineCalls,
                        monitoring |-> one.monitoring])

\* len(files) > 10
BatchLimit == 10

CountSuccessful(results) ==
    Cardinality({i \in DOMAIN results : results[i].success})

\* BatchProcessing.post; request.images is <<>> when the request has no
\* 'images[]' part, else <<the list of files>>
batch_processing_post(request, st, calls, mon) ==
    LET refused(error) ==
            [response |-> create_error_response(error, FALSE), storage |-> st,
             pipelineCalls |-> calls, monitoring |-> mon]
        typeError == IF request.auto_detect THEN <<>>
                     ELSE validate_object_type(request.object_type)
    IN  IF typeError # <<>> THEN refused(typeError[1])
        ELSE IF request.images = <<>> \/ request.images[1] = <<>>
        THEN refused(ValidationAPIError("No images provided",
                                        "Please upload at least one image file"))
        ELSE IF Len(request.images[1]) > BatchLimit
        THEN refused(ValidationAPIError("Too many images",
                                        "Maximum 10 images allowed per batch"))
        ELSE
        LET files == request.images[1]
            object_type == IF request.auto_detect THEN request.object_type
                           ELSE <<Strip(request.object_type[1])>>
            done == BatchLoop(files, object_type, request.auto_detect,
                              [results |-> <<>>, storage |-> st,
                               pipelineCalls |-> calls, monitoring |-> mon])
            successful_count == CountSuccessful(done.results)
            failed_count == Len(done.results) - successful_count
        IN  [response |->
                 [status |-> 200,
                  body |-> JsonObject(<<
                      <<"success", TRUE>>,
                      <<"total_images", Len(files)>>,
                      <<"successful_images", successful_count>>,
                      <<"failed_images", failed_count>>,
                      <<"results", done.results>>>>)],
             storage |-> done.storage,
             pipelineCalls |-> done.pipelineCalls,
             monitoring |-> record_request(done.monitoring,
                 IF request.auto_detect THEN "auto_detect_batch"
                 ELSE object_type[1] \o "_batch",
                 250 * Len(files), successful_count > 0)]

(***************************************************************************)
(* The requests served                                                     *)
(***************************************************************************)
MaxApiCalls == 2
MaxFiles == 2

UploadedFile(filename, too_large, save, ai, db, count) ==
    [filename |-> filename, too_large |-> too_large, save |-> save, ai |-> ai,
     db |-> db, count |-> count, detected |-> L_dog]

GoodPng == UploadedFile("a.png", FALSE, "ok", "ok", "ok", 3)
GoodJpg == UploadedFile("b.JPG", FALSE, "ok", "ok", "ok", 0)
NamelessFile == UploadedFile("", FALSE, "ok", "ok", "ok", 0)
TextFile == UploadedFile("notes.txt", FALSE, "ok", "ok", "ok", 0)
BmpFile == UploadedFile("scan.bmp", FALSE, "ok", "ok", "ok", 1)
AiRaisesFile == UploadedFile("a.png", FALSE, "ok", "raises", "ok", 0)
InputCommitFailsFile == UploadedFile("a.png", FALSE, "ok", "ok", "input", 2)
OutputCommitFailsFile == UploadedFile("a.png", FALSE, "ok", "ok", "output", 2)

\* files for a batch: one per way an image can fail, and two that succeed
BatchFiles ==
    {GoodPng, GoodJpg, NamelessFile, TextFile, BmpFile, AiRaisesFile,
     InputCommitFailsFile, OutputCommitFailsFile}

\* files for a single upload: the batch files and the remaining failures
UploadFiles ==
    BatchFiles \cup
    {UploadedFile("huge.png", TRUE, "ok", "ok", "ok", 0),
     UploadedFile("noextension", FALSE, "ok", "ok", "ok", 0),
     UploadedFile("a.png", FALSE, "error", "ok", "ok", 0),
     UploadedFile("a.png", FALSE, "ok", "unsuccessful", "ok", 0)}

LongObjectType == "an object type whose name is longer than fifty characters"
ObjectTypeFields == {<<>>, <<"">>, <<"c">>, <<" car ">>, <<L_dog>>, <<LongObjectType>>}

InputRequests ==
    [image : {<<>>} \cup {<<f>> : f \in UploadFiles}, object_type : ObjectTypeFields]

BatchRequests ==
    [images : {<<>>, <<<<>>>>, <<[i \in 1..(BatchLimit + 1) |-> GoodPng]>>}
              \cup {<<files>> : files \in
                        UNION {[1..n -> BatchFiles] : n \in 1..MaxFiles}},
     object_type : {<<>>, <<"c">>, <<L_car>>},
     auto_detect : BOOLEAN]

ApiFrame ==
    UNCHANGED <<synVars, nmsVars, mapVars, filVars,
                iouVars, aggVars, qualVars, runVars, tableVars, singletonVars>>

\* the state one handler run leaves
Served(op, request, out) ==
    /\ storage' = out.storage
    /\ pipelineCalls' = out.pipelineCalls
    /\ monitoring' = out.monitoring
    /\ monLast' = IF out.monitoring = monitoring THEN monLast ELSE "record_request"
    /\ apiLast' = [op |-> op, request |-> request, before |-> storage,
                   callsBefore |-> pipelineCalls, response |-> out.response]
    /\ apiCount' = apiCount + 1
    /\ ApiFrame

InitApi ==
    /\ storage \in {EmptyStorage, [EmptyStorage EXCEPT !.refused_types = {L_dog}]}
    /\ pipelineCalls = <<>>
    /\ apiLast = NoCallYet
    /\ apiCount = 0
    /\ TableIdle /\ SingletonIdle /\ MonIdle
    /\ SynIdle /\ NmsIdle /\ MapIdle /\ FilIdle
    /\ IouIdle /\ AggIdle /\ QualIdle /\ RunIdle

ObjectTypeListGet ==
    /\ apiCount < MaxApiCalls
    /\ \E out \in {object_type_list_get(storage)} :
          Served("ObjectTypeList.get", NoCallYet,
                 [response |-> out.response, storage |-> out.storage,
                  pipelineCalls |-> pipelineCalls, monitoring |-> monitoring])

InputListPost ==
    /\ apiCount < MaxApiCalls
    /\ \E request \in InputRequests :
       \E out \in {input_list_post(request, storage, pipelineCalls, monitoring)} :
          Served("InputList.post", request, out)

BatchProcessingPost ==
    /\ apiCount < MaxApiCalls
    /\ \E request \in BatchRequests :
       \E out \in {batch_processing_post(request, storage, pipelineCalls, monitoring)} :
          Served("BatchProcessing.post", request, out)

NextApi == ObjectTypeListGet \/ InputListPost \/ BatchProcessingPost

SpecApi == InitApi /\ [][NextApi]_vars

\* C21: GET on the object-types collection answers 400 with a 'message'
\* when storage holds no object types, and 200 with the serialized list as
\* the body when it holds some.
C21_ObjectTypesEmptyIs400 ==
    apiLast.op = "ObjectTypeList.get" =>
        IF apiLast.before.object_types = <<>>
        THEN /\ apiLast.response.status = 400
             /\ HasMember(apiLast.response.body, "message")
        ELSE /\ apiLast.response.status = 200
             /\ apiLast.response.body
                    = JsonArray(objs_schema_dump(apiLast.before.object_types))

\* the request of the last InputList.post fails validation
FailsValidation ==
    /\ apiLast.op = "InputList.post"
    /\ \/ validate_file_upload(apiLast.request) # <<>>
       \/ validate_object_type(apiLast.request.object_type) # <<>>

\* C22: a POST to /api/inputs whose payload fails validation answers 403
\* with status 'fail' and the validation messages, saves no Input,
\* ObjectType or Output and does not invoke the AI pipeline.
C22_InvalidInputIs403 ==
    FailsValidation =>
        /\ apiLast.response.status = 403
        /\ HasMember(apiLast.response.body, "status")
        /\ Member(apiLast.response.body, "status") = "fail"
        /\ HasMember(apiLast.response.body, "message")
        /\ storage = apiLast.before
        /\ pipelineCalls = apiLast.callsBefore

\* the last request was a batch that passed the checks of the request
AcceptedBatch ==
    /\ apiLast.op = "BatchProcessing.post"
    /\ apiLast.response.status = 200

\* what processing the i-th file of the last batch on its own gives
AloneRun(i) ==
    process_single_image(apiLast.request.images[1][i],
        IF apiLast.request.auto_detect THEN apiLast.request.object_type
        ELSE <<Strip(apiLast.request.object_type[1])>>,
        apiLast.request.auto_detect, apiLast.before, <<>>, FreshMonitoring)

\* the pipeline calls the files from the i-th on make when run on their own
RECURSIVE AloneCalls(_)
AloneCalls(i) ==
    IF i > Len(apiLast.request.images[1]) THEN <<>>
    ELSE AloneRun(i).pipelineCalls \o AloneCalls(i + 1)

=============================================================================
